---- MODULE Spec2Model ----
(***************************************************************************)
(* Model of werk's terminal progress watcher                               *)
(* (src/werk-cli/watcher/ansi.rs, src/werk-cli/watcher.rs), of its         *)
(* output-mode detector (AutoStreamKind::detect) and of the parser of      *)
(* werk files (src/werk-parser/parser.rs).                                 *)
(*                                                                         *)
(* The Renderer is a record; every handler of `impl Renderer` is an        *)
(* operator from (renderer, arguments) to the new renderer and the list of *)
(* writes it performs.  A write is a token on one of the two streams:      *)
(*   EL      the erase sequence ESC[K                                      *)
(*   TEXT    a run of bytes holding no line ending (field s names it)      *)
(*   NL      "\n"                                                          *)
(*   STATUS  the status line composed by render_progress (without "\r")    *)
(*   CR      "\r"                                                          *)
(* and FLUSH stands for the call of flush() on a stream.  The spinner      *)
(* glyph and the colours are not part of a token.                          *)
(*                                                                         *)
(* Each stream is an AutoStream of kind Ansi (Passthrough) or Strip; a     *)
(* StripStream drops ESC[K (and the colours) and passes the rest on.       *)
(* Below it std::io::Stdout is line buffered (LineWriter): the bytes of a  *)
(* write stay in its buffer (buf) until a "\n" is written or the stream is *)
(* flushed, and only then reach file descriptor 1; std::io::Stderr is not  *)
(* buffered.  Both file descriptors are taken to be one terminal (term).   *)
(* The buffer holds 1024 bytes in the code; the runs are those in which it *)
(* does not fill up (MaxBuffered tokens), and the flush of the buffer when *)
(* the process exits is not part of a run.  Wincon (cfg(windows)) is not   *)
(* modelled.  The two streams of a run are of one kind, as they are where  *)
(* the kind comes from AutoStreamKind::detect (watcher.rs:175, 198); the   *)
(* runs of the spinner and the threaded runs are those of kind Ansi, and   *)
(* the runs with streams of kind Strip start from the OutputSettings with  *)
(* every setting off.  The terminal keeps the widths of what is on the row *)
(* under the cursor; the runs are those in which write_raw_stderr is       *)
(* called with the cursor left of column MaxRaw and in which a call leaves *)
(* at most MaxSegs runs of cells on the row.                               *)
(*                                                                         *)
(* clock is the reading of std::time::Instant::now() in milliseconds since *)
(* the watcher was built.  Time passes only in the specification           *)
(* SpecSpinner (action Elapse); in Spec and SpecThreaded all calls fall    *)
(* into the instant of construction, so the spinner stays on its frame.    *)
(***************************************************************************)
EXTENDS Integers, Sequences, FiniteSets, TLC

VARIABLES
    clock,      \* std::time::Instant::now(), in ms since TerminalWatcher::new
    linear,     \* the const generic LINEAR of TerminalWatcher
    settings,   \* RenderState::settings (OutputSettings)
    renderer,   \* Renderer: current_tasks, num_tasks, num_completed_tasks,
                \* spinner_frame, last_spinner_tick, needs_clear
    ev,         \* the last Watcher call: [op, task, arg, step, n, at]
    out,        \* the writes of the last Watcher call, in order, as the
                \* AutoStreams pass them on to std::io::Stdout / Stderr
    streams,    \* the AutoStreamKind of stdout and of stderr
    buf,        \* the buffer of std::io::Stdout: for every write it holds,
                \* the kind of token, its cells and the id of the call
    term,       \* the terminal row under the cursor and the column of the
                \* cursor, after all the bytes
                \* that have reached the file descriptors
    mutex,      \* owner of the parking_lot::Mutex around the Renderer
    wpc,        \* per worker thread: position inside a Watcher call
    wcall,      \* per thread: its current call [id, c] (id 0: none)
    pending,    \* per thread: writes of its current call not yet performed
    ncalls,     \* number of calls started so far (gives call ids)
    log,        \* call ids in the order their writes reached the terminal
    tpc,        \* position of the background ticker task
    strong,     \* strong count of the Arc<Mutex<Renderer>>
    owner,      \* what the TerminalWatcher value still holds: "all", "task", "none"
    probes,     \* what the platform queries of AutoStreamKind::detect answer
    kind,       \* the AutoStreamKind returned by detect ("none": not called)
    source_code, \* the argument of parse_werk, as a sequence of tokens
    parsed      \* what parse_werk returned (NotParsed: not called)

vars == <<clock, linear, settings, streams, renderer, ev, out, buf, term,
          mutex, wpc, wcall, pending,
          ncalls, log, tpc, strong, owner, probes, kind, source_code, parsed>>

\* the detector and the parser share no state with the watcher
ovars == <<probes, kind, source_code, parsed>>

rvars == <<ovars, clock, linear, settings, streams, renderer, ev, out, buf, term>>
cvars == <<mutex, wpc, wcall, pending, ncalls, log, tpc, strong, owner>>

(***************************************************************************)
(* Bounds and inputs.                                                      *)
(***************************************************************************)
MaxBuilds == 2      \* will_build / did_build calls counted by the usize counters
MaxCalls == 3       \* Watcher calls and ticker renders in the threaded runs
MaxTime == 300      \* ms after which the clock is no longer advanced
MaxRaw == 1         \* column left of which write_raw_stderr is called
MaxSegs == 2        \* runs of cells on the terminal row at the end of a call
MaxBuffered == 1    \* writes held by the buffer of stdout at the end of a call

TaskIds == {"/long.o", "all"}
NoTask == ""                            \* Option<&TaskId>::None
Workers == {"w1", "w2"}
Messages == {"m"}
Lines == {"x"}
NumSteps == {1, 2}                      \* num_steps of will_build
Progress == {<<0, 1>>, <<1, 2>>}        \* (step, num_steps) of will_execute
ReasonCounts == {0, 1}                  \* reasons of an Outdatedness
RawBytes == {<<"x">>, <<"x", "\n">>}
BuildResults == {"complete_outdated", "complete_fresh", "exists", "err"}
ExecResults == {"success", "failure", "io_error"}

\* TaskId::as_path: a build target has a path, a command task has none.
as_path(task) == task = "/long.o"

\* TaskId::short_name().len()
short_name_len(task) == IF task = "/long.o" THEN 90 ELSE 3

initial_width == 20
max_width == 100

\* Duration::from_millis(100) of the spinner
spinner_interval == 100

\* the amounts of time (ms) that pass between two steps
Delays == {50}

(***************************************************************************)
(* Tokens.                                                                 *)
(***************************************************************************)
EL(fd) == [fd |-> fd, k |-> "EL"]
NL(fd) == [fd |-> fd, k |-> "NL"]
CR(fd) == [fd |-> fd, k |-> "CR"]
FLUSH(fd) == [fd |-> fd, k |-> "FLUSH"]
TEXT(fd, s, task) == [fd |-> fd, k |-> "TEXT", s |-> s, task |-> task]

\* writeln!(out, ...) of a text without inner line ending
Writeln(fd, s, task) == <<TEXT(fd, s, task), NL(fd)>>

\* out.write_all(bytes): an empty slice writes nothing
WriteBytes(fd, s, task) == IF s = "" THEN <<>> ELSE <<TEXT(fd, s, task)>>

(***************************************************************************)
(* current_tasks: IndexMap<TaskId, (usize, usize)> as a sequence of        *)
(* entries in insertion order.                                             *)
(***************************************************************************)
Keys(ct) == {ct[i].id : i \in 1..Len(ct)}

IndexOf(ct, task) == CHOOSE i \in 1..Len(ct) : ct[i].id = task

\* IndexMap::insert: an existing key keeps its position and gets the value
insert_or_keep(ct, task, value) ==
    IF task \in Keys(ct) THEN ct ELSE Append(ct, [id |-> task, v |-> value])

insert(ct, task, value) ==
    IF task \in Keys(ct)
    THEN [ct EXCEPT ![IndexOf(ct, task)] = [id |-> task, v |-> value]]
    ELSE Append(ct, [id |-> task, v |-> value])

\* IndexMap::shift_remove: the later entries keep their order
shift_remove(ct, task) == SelectSeq(ct, LAMBDA e : e.id # task)

(***************************************************************************)
(* RenderState::render_progress                                            *)
(***************************************************************************)
RECURSIVE NamesLoop(_, _, _, _)
\* the loop over current_tasks; index is 0-based as in the code
NamesLoop(ct, index, width_written, names) ==
    IF index >= Len(ct)
    THEN [names |-> names, more |-> 0, suffix |-> "none"]
    ELSE IF width_written > max_width
    THEN LET num_remaining == Len(ct) - (index + 1) IN
         IF num_remaining > 0
         THEN [names |-> names, more |-> num_remaining,
               suffix |-> IF index > 0 THEN "more" ELSE "recipes"]
         ELSE [names |-> names, more |-> 0, suffix |-> "none"]
    ELSE LET id == ct[index + 1].id
             sep == IF index # 0 THEN 2 ELSE 0
         IN  NamesLoop(ct, index + 1, width_written + sep + short_name_len(id),
                       Append(names, id))

StatusLine(r) ==
    LET l == NamesLoop(r.current_tasks, 0, initial_width, <<>>) IN
    [fd |-> "stdout", k |-> "STATUS",
     done |-> r.num_completed_tasks, total |-> r.num_tasks,
     names |-> l.names, more |-> l.more, suffix |-> l.suffix]

\* the spinner step at the head of render_progress: has the frame been
\* shown for long enough
tick_due_inclusive(elapsed) == elapsed >= spinner_interval

tick_due(elapsed) == elapsed > spinner_interval

spinner_tick(r) ==
    IF linear THEN r
    ELSE IF tick_due(clock - r.last_spinner_tick)
    THEN [r EXCEPT !.spinner_frame = @ + 1, !.last_spinner_tick = clock]
    ELSE r

\* the writes of render_progress: out.write_all(buffer) and out.flush(),
\* after the two early returns
render_progress(r) ==
    IF linear THEN <<>>
    ELSE IF r.current_tasks = <<>> THEN <<>>
    ELSE <<StatusLine(r), CR("stdout"), FLUSH("stdout")>>

(***************************************************************************)
(* Renderer::render_lines, Renderer::render_lines_stderr                   *)
(***************************************************************************)
Result(r, w) == [r |-> r, w |-> w]

render_lines_to(r, fd, lines) ==
    IF linear
    THEN Result(r, lines)
    ELSE Result([spinner_tick(r) EXCEPT !.needs_clear = TRUE],
                (IF r.needs_clear THEN <<EL(fd)>> ELSE <<>>)
                    \o lines \o render_progress(r))

render_lines(r, lines) == render_lines_to(r, "stdout", lines)

render_lines_stderr(r, lines) == render_lines_to(r, "stderr", lines)

(***************************************************************************)
(* The handlers of impl Renderer.                                          *)
(***************************************************************************)
RECURSIVE Causes(_, _)
Causes(n, task) ==
    IF n = 0 THEN <<>> ELSE Writeln("stdout", "cause", task) \o Causes(n - 1, task)

\* reasons: number of reasons of the Outdatedness; is_outdated() iff some
will_build(r, task, num_steps, reasons) ==
    LET r1 == [r EXCEPT !.current_tasks = insert(@, task, <<0, num_steps>>),
                        !.num_tasks = @ + 1]
        lines == IF settings.explain /\ reasons > 0
                 THEN Writeln("stdout",
                              IF as_path(task) THEN "rebuilding" ELSE "running task",
                              task)
                          \o Causes(reasons, task)
                 ELSE <<>>
    IN  render_lines(r1, lines)

did_build_lines(task, result) ==
    CASE result = "complete_outdated" ->
            Writeln("stdout", IF settings.dry_run THEN "ok (dry-run)" ELSE "ok", task)
      [] result = "complete_fresh" ->
            IF settings.print_fresh THEN Writeln("stdout", "--", task) ELSE <<>>
      [] result = "exists" -> <<>>
      [] result = "err" ->
            Writeln("stdout", "ERROR", task) \o Writeln("stdout", "err", task)

\* a did_build that leaves num_completed_tasks as it is
did_build_uncounted(r, task, result) ==
    render_lines([r EXCEPT !.current_tasks = shift_remove(@, task)],
                 did_build_lines(task, result))

did_build(r, task, result) ==
    LET r1 == [r EXCEPT !.current_tasks = shift_remove(@, task),
                        !.num_completed_tasks = @ + 1]
    IN  render_lines(r1, did_build_lines(task, result))

\* defined for a registered task; the caller models the expect() panic
will_execute_unless_dry_run(r, task, step, num_steps) ==
    LET r1 == [r EXCEPT !.current_tasks = insert(@, task, <<step + 1, num_steps>>)]
    IN  IF settings.print_recipe_commands
        THEN render_lines(r1, <<TEXT("stdout", "command", task)>>)
        ELSE IF ~linear THEN render_lines(r1, <<>>)
        ELSE Result(r1, <<>>)

will_execute(r, task, step, num_steps) ==
    LET r1 == [r EXCEPT !.current_tasks = insert(@, task, <<step + 1, num_steps>>)]
        print_something == settings.dry_run \/ settings.print_recipe_commands
    IN  IF print_something
        THEN render_lines(r1, <<TEXT("stdout", "command", task)>>)
        ELSE IF ~linear THEN render_lines(r1, <<>>)
        ELSE Result(r1, <<>>)

on_child_process_stdout_line(r, task, line) ==
    render_lines(r, WriteBytes("stdout", line, task) \o <<NL("stdout")>>)

on_child_process_stderr_line(r, task, line) ==
    render_lines_stderr(r, WriteBytes("stderr", line, task) \o <<NL("stderr")>>)

\* a did_execute that takes a task whose command failed out of current_tasks
did_execute_removes(r, task, result) ==
    IF result = "success" THEN Result(r, <<>>)
    ELSE render_lines([r EXCEPT !.current_tasks = shift_remove(@, task)],
                      Writeln("stdout", "command failed", task))

did_execute(r, task, result) ==
    CASE result = "success" -> Result(r, <<>>)
      [] result = "failure" ->
            render_lines(r, Writeln("stdout", "command failed", task))
      [] result = "io_error" ->
            render_lines(r, Writeln("stdout", "error evaluating command", task)
                                \o Writeln("stdout", "err", task))

\* _task_id is not used
message(r, task, text) == render_lines(r, <<TEXT("stdout", "[info] " \o text, NoTask)>>)

warning(r, task, text) == render_lines(r, <<TEXT("stdout", "[warn] " \o text, NoTask)>>)

render_now(r) == IF ~linear THEN render_lines(r, <<>>) ELSE Result(r, <<>>)

\* write_raw_stdout / write_raw_stderr: stdout.write_all(bytes)
RECURSIVE RawTokens(_, _)
RawTokens(fd, bytes) ==
    IF bytes = <<>> THEN <<>>
    ELSE (IF Head(bytes) = "\n" THEN <<NL(fd)>> ELSE <<TEXT(fd, "raw", NoTask)>>)
             \o RawTokens(fd, Tail(bytes))

write_raw(r, fd, bytes) == Result(r, RawTokens(fd, bytes))

(***************************************************************************)
(* impl werk_runner::Watcher for TerminalWatcher: the dispatch of a call   *)
(* c = [op, task, arg, ...] once the mutex is held.                        *)
(***************************************************************************)
\* TerminalWatcher::on_child_process_stdout_line: `if !capture`
stdout_line_forwarded(capture) == ~capture

\* a lookup that finds every task once some task has been begun
Registered_begun(r, task) == r.num_tasks > 0

Registered(r, task) == task \in Keys(r.current_tasks)

Handle(r, c) ==
    CASE c.op = "will_build" -> will_build(r, c.task, c.num_steps, c.reasons)
      [] c.op = "did_build" -> did_build(r, c.task, c.arg)
      [] c.op = "will_execute" ->
            IF Registered(r, c.task)
            THEN will_execute(r, c.task, c.step, c.num_steps)
            ELSE Result(r, <<>>)     \* expect("task not registered") panics
      [] c.op = "stdout_line" ->
            IF stdout_line_forwarded(c.arg = "capture")
            THEN on_child_process_stdout_line(r, c.task, c.line)
            ELSE Result(r, <<>>)
      [] c.op = "stderr_line" -> on_child_process_stderr_line(r, c.task, c.line)
      [] c.op = "did_execute" -> did_execute(r, c.task, c.arg)
      [] c.op = "message" -> message(r, c.task, c.text)
      [] c.op = "warning" -> warning(r, c.task, c.text)
      [] c.op = "write_raw_stdout" -> write_raw(r, "stdout", c.bytes)
      [] c.op = "write_raw_stderr" -> write_raw(r, "stderr", c.bytes)
      [] c.op = "render_now" -> render_now(r)

\* what the call leaves in ev: the call, its outcome and the time it was made
Event(r, c) ==
    [op |-> c.op, task |-> c.task,
     arg |-> IF c.op = "will_execute" /\ ~Registered(r, c.task) THEN "panic" ELSE c.arg,
     step |-> IF c.op = "will_execute" THEN c.step ELSE 0,
     n |-> IF c.op \in {"will_build", "will_execute"} THEN c.num_steps ELSE 0,
     at |-> clock]

(***************************************************************************)
(* The terminal both streams are attached to, reduced to the row under the *)
(* cursor: col is the column of the cursor and row the content of the row  *)
(* from column 0 on, a sequence of segments [k, w] of w cells each:        *)
(*   k = "text"    bytes of event lines and raw bytes                      *)
(*   k = "status"  a status line of which every cell is on the row         *)
(*   k = "rest"    what is left of a status line that was partly           *)
(*                 overwritten or erased                                   *)
(* A write replaces the cells from the cursor on and leaves the others,    *)
(* ESC[K erases from the cursor to the end of the row, "\r" moves the      *)
(* cursor to column 0 and "\n" to column 0 of the next, empty row.  The    *)
(* terminal is wider than every line written: no row wraps.  The colours   *)
(* take no cell and the spinner glyph takes one.                           *)
(***************************************************************************)
\* the texts of the arguments that have no other part in the model:
\* command.display(), {err} and {reason}
Command == "cmd"
Err == "err"
Reason == "reason"

\* the number of decimal digits of a usize
RECURSIVE DecLen(_)
DecLen(n) == IF n < 10 THEN 1 ELSE 1 + DecLen(n \div 10)

\* {task_id}: a build target is displayed as its path "/" and file name
task_len(task) ==
    IF as_path(task) THEN Len("/") + short_name_len(task) ELSE short_name_len(task)

\* the names of the status line, joined by ", "
RECURSIVE NamesWidth(_)
NamesWidth(names) ==
    IF names = <<>> THEN 0
    ELSE short_name_len(Head(names))
            + (IF Len(names) > 1 THEN Len(", ") ELSE 0) + NamesWidth(Tail(names))

\* the cells a token takes on the row; a Step in the text of an event
\* line is written with the digits of [0/1], and "'" stands for a backquote
Width(tok) ==
    CASE tok.k = "STATUS" ->
            Len("  * [") + DecLen(tok.done) + Len("/") + DecLen(tok.total) + Len("] ")
                + NamesWidth(tok.names)
                + (CASE tok.suffix = "more" -> Len(" + ") + DecLen(tok.more) + Len(" more")
                     [] tok.suffix = "recipes" -> DecLen(tok.more) + Len(" recipes")
                     [] OTHER -> 0)
      [] tok.k = "TEXT" ->
           (CASE tok.s = "rebuilding" -> Len("[0/1] rebuilding ''") + task_len(tok.task)
              [] tok.s = "running task" -> Len("[0/1] running task ''") + task_len(tok.task)
              [] tok.s = "cause" -> Len("  Cause: ") + Len(Reason)
              [] tok.s = "ok" -> Len("[ ok ] ") + task_len(tok.task)
              [] tok.s = "ok (dry-run)" -> Len("[ ok ]  (dry-run)") + task_len(tok.task)
              [] tok.s = "--" -> Len("[ -- ] ") + task_len(tok.task)
              [] tok.s = "ERROR" -> Len("[ERROR] ") + task_len(tok.task)
              [] tok.s = "err" -> Len(Err)
              [] tok.s = "command" -> Len("[0/1] : ") + task_len(tok.task) + Len(Command)
              [] tok.s = "command failed" ->
                    Len("[0/1] Command failed while building '': ")
                        + task_len(tok.task) + Len(Command)
              [] tok.s = "error evaluating command" ->
                    Len("[0/1] Error evaluating command while building '': ")
                        + task_len(tok.task) + Len(Command)
              [] tok.s = "raw" -> Len("x")
              [] OTHER -> Len(tok.s))
      [] OTHER -> 0

EmptyRow == [row |-> <<>>, col |-> 0]

\* a segment cut to w of its cells: a status line is no longer whole
Part(seg, w) == [k |-> IF seg.k = "status" THEN "rest" ELSE seg.k, w |-> w]

\* the first n cells of a row
RECURSIVE Take(_, _)
Take(row, n) ==
    IF row = <<>> \/ n = 0 THEN <<>>
    ELSE IF Head(row).w <= n THEN <<Head(row)>> \o Take(Tail(row), n - Head(row).w)
    ELSE <<Part(Head(row), n)>>

\* the cells of a row from column n on
RECURSIVE Drop(_, _)
Drop(row, n) ==
    IF row = <<>> \/ n = 0 THEN row
    ELSE IF Head(row).w <= n THEN Drop(Tail(row), n - Head(row).w)
    ELSE <<Part(Head(row), Head(row).w - n)>> \o Tail(row)

\* two neighbouring runs of cells; text next to text is one run of text
Cat(a, b) ==
    IF a = <<>> THEN b
    ELSE IF b = <<>> THEN a
    ELSE IF a[Len(a)].k = b[1].k /\ b[1].k # "status"
    THEN SubSeq(a, 1, Len(a) - 1)
            \o <<[k |-> b[1].k, w |-> a[Len(a)].w + b[1].w]>> \o Tail(b)
    ELSE a \o b

\* w cells of kind k written at the cursor
Put(t, k, w) ==
    IF w = 0 THEN t
    ELSE [row |-> Cat(Cat(Take(t.row, t.col), <<[k |-> k, w |-> w]>>),
                      Drop(t.row, t.col + w)),
          col |-> t.col + w]

\* a whole status line is on the row
Status(t) == \E i \in DOMAIN t.row : t.row[i].k = "status"

\* the row after a write of kind tok.k and of tok.w cells has reached it
ApplyTok(t, tok) ==
    CASE tok.k = "EL" -> [t EXCEPT !.row = Take(@, t.col)]
      [] tok.k = "NL" -> EmptyRow
      [] tok.k = "CR" -> [t EXCEPT !.col = 0]
      [] tok.k = "TEXT" -> Put(t, "text", tok.w)
      [] tok.k = "STATUS" -> Put(t, "status", tok.w)

RECURSIVE ApplyAll(_, _)
ApplyAll(t, w) == IF w = <<>> THEN t ELSE ApplyAll(ApplyTok(t, Head(w)), Tail(w))

(***************************************************************************)
(* The streams: AutoStream (watcher.rs) over std::io::Stdout and           *)
(* std::io::Stderr.                                                        *)
(***************************************************************************)
Kinds == {"Ansi", "Strip"}

\* AutoStream::Strip: StripStream passes on what is no escape sequence
Stripped(tok) == tok.k = "EL" /\ streams[tok.fd] = "Strip"

\* what the AutoStreams pass on to std::io::Stdout and std::io::Stderr of
\* the write_all / write! calls of a handler
Writes(w) == SelectSeq(w, LAMBDA tok : tok.k # "FLUSH" /\ ~Stripped(tok))

\* what a write leaves of itself in the buffer and at the file descriptors
Written1(tok, id) == [k |-> tok.k, fd |-> tok.fd, id |-> id, w |-> Width(tok)]

\* one write or flush of call id, with d.buf in the buffer of stdout and
\* d.fds passed to the file descriptors so far: stderr passes every write
\* on at once, stdout passes its buffer on at a line ending and at a flush
WriteTok(d, tok, id) ==
    CASE tok.k = "FLUSH" ->
            IF tok.fd = "stdout" THEN [buf |-> <<>>, fds |-> d.fds \o d.buf] ELSE d
      [] tok.k # "FLUSH" /\ Stripped(tok) -> d
      [] tok.k # "FLUSH" /\ ~Stripped(tok) /\ tok.fd = "stderr" ->
            [d EXCEPT !.fds = Append(@, Written1(tok, id))]
      [] tok.k # "FLUSH" /\ ~Stripped(tok) /\ tok.fd = "stdout" /\ tok.k = "NL" ->
            [buf |-> <<>>, fds |-> d.fds \o d.buf \o <<Written1(tok, id)>>]
      [] OTHER -> [d EXCEPT !.buf = Append(@, Written1(tok, id))]

RECURSIVE WriteAll(_, _, _)
WriteAll(d, w, id) ==
    IF w = <<>> THEN d ELSE WriteAll(WriteTok(d, Head(w), id), Tail(w), id)

(***************************************************************************)
(* TerminalWatcher::new                                                    *)
(***************************************************************************)
Settings(explain, print_fresh, dry_run, print_recipe_commands, no_capture) ==
    [explain |-> explain, print_fresh |-> print_fresh, dry_run |-> dry_run,
     print_recipe_commands |-> print_recipe_commands, no_capture |-> no_capture]

\* the OutputSettings the runs start from
OutputSettings ==
    {Settings(FALSE, FALSE, FALSE, FALSE, FALSE),
     Settings(TRUE, TRUE, FALSE, FALSE, FALSE),
     Settings(FALSE, FALSE, TRUE, FALSE, FALSE),
     Settings(FALSE, FALSE, FALSE, TRUE, TRUE),
     Settings(TRUE, TRUE, TRUE, TRUE, TRUE)}

Threads == Workers \cup {"ticker"}

NoCall == [id |-> 0, c |-> [op |-> "none", task |-> NoTask, arg |-> ""]]

new(LINEAR, s, stdout, stderr) ==
    /\ clock = 0
    /\ linear = LINEAR
    /\ settings = s
    /\ streams = [stdout |-> stdout, stderr |-> stderr]
    /\ buf = <<>>
    /\ renderer = [current_tasks |-> <<>>, num_tasks |-> 0,
                   num_completed_tasks |-> 0,
                   spinner_frame |-> 0, last_spinner_tick |-> 0,
                   needs_clear |-> FALSE]
    /\ ev = [op |-> "new", task |-> "", arg |-> "", step |-> 0, n |-> 0, at |-> 0]
    /\ out = <<>>
    /\ term = EmptyRow
    /\ mutex = "none"
    /\ wpc = [w \in Workers |-> "idle"]
    /\ wcall = [t \in Threads |-> NoCall]
    /\ pending = [t \in Threads |-> <<>>]
    /\ ncalls = 0
    /\ log = <<>>
    /\ tpc = IF LINEAR THEN "none" ELSE "sleep"
    /\ strong = 1
    /\ owner = "all"

\* the platform queries before anything was asked
NoProbes ==
    [choice |-> "Never", no_color |-> FALSE, clicolor_force |-> FALSE,
     is_terminal |-> FALSE, enable_ansi_colors |-> "None",
     term_supports_ansi_color |-> FALSE, windows |-> FALSE]

\* Result<Document, Error> before parse_werk was called
NotParsed ==
    [status |-> "none", span |-> <<0, 0>>,
     expected |-> [k |-> "", text |-> "", span |-> <<0, 0>>]]

\* neither detect nor parse_werk is called in the runs of the watcher
Unused ==
    /\ probes = NoProbes
    /\ kind = "none"
    /\ source_code = <<>>
    /\ parsed = NotParsed

\* the kind of the streams and the OutputSettings the runs start from
Consoles ==
    {<<"Ansi", s>> : s \in OutputSettings}
        \cup {<<"Strip", Settings(FALSE, FALSE, FALSE, FALSE, FALSE)>>}

Init ==
    /\ Unused
    /\ \E LINEAR \in BOOLEAN, c \in Consoles : new(LINEAR, c[2], c[1], c[1])

(***************************************************************************)
(* The calls a Runner can make.                                            *)
(***************************************************************************)
WillBuildCalls ==
    {[op |-> "will_build", task |-> t, arg |-> "", num_steps |-> n, reasons |-> k] :
        t \in TaskIds, n \in NumSteps, k \in ReasonCounts}

DidBuildCalls ==
    {[op |-> "did_build", task |-> t, arg |-> res] : t \in TaskIds, res \in BuildResults}

WillExecuteCalls ==
    {[op |-> "will_execute", task |-> t, arg |-> "", step |-> p[1], num_steps |-> p[2]] :
        t \in TaskIds, p \in Progress}

\* the handlers of the child-process lines do not use the task
StdoutLineCalls ==
    {[op |-> "stdout_line", task |-> t, arg |-> a, line |-> l] :
        t \in {"all"}, a \in {"capture", "forward"}, l \in Lines}

\* arg: whether the Runner wants the line kept quiet; the method has no
\* such parameter and OutputSettings has no such field
StderrLineCalls ==
    {[op |-> "stderr_line", task |-> t, arg |-> a, line |-> l] :
        t \in {"all"}, a \in {"quiet", "loud"}, l \in Lines}

DidExecuteCalls ==
    {[op |-> "did_execute", task |-> t, arg |-> res] : t \in TaskIds, res \in ExecResults}

\* message and warning do not use the task
MessageCalls ==
    {[op |-> "message", task |-> t, arg |-> "", text |-> m] :
        t \in {"all", NoTask}, m \in Messages}

WarningCalls ==
    {[op |-> "warning", task |-> t, arg |-> "", text |-> m] :
        t \in {"all", NoTask}, m \in Messages}

WriteRawCalls ==
    {[op |-> o, task |-> NoTask, arg |-> "", bytes |-> b] :
        o \in {"write_raw_stdout", "write_raw_stderr"}, b \in RawBytes}

RenderNowCall == [op |-> "render_now", task |-> NoTask, arg |-> ""]

\* the usize counters and the run of raw bytes that write_raw_stderr puts
\* on one row are capped so that the state space is finite
Allowed(r, c) ==
    /\ c.op = "will_build" => r.num_tasks < MaxBuilds
    /\ c.op = "did_build" => r.num_completed_tasks < MaxBuilds
    /\ c.op = "write_raw_stderr" => term.col < MaxRaw

(***************************************************************************)
(* One Watcher call as one step: lock, handler, unlock.                    *)
(***************************************************************************)
Do(c) ==
    /\ Allowed(renderer, c)
    /\ \E h \in {Handle(renderer, c)} :
        \E d \in {WriteAll([buf |-> buf, fds |-> <<>>], h.w, 0)} :
           /\ Len(d.buf) <= MaxBuffered
           /\ renderer' = h.r
           /\ out' = Writes(h.w)
           /\ buf' = d.buf
           /\ \E t \in {ApplyAll(term, d.fds)} :
                 Len(t.row) <= MaxSegs /\ term' = t
    /\ ev' = Event(renderer, c)
    /\ UNCHANGED <<ovars, clock, linear, settings, streams, cvars>>

WillBuild == \E c \in WillBuildCalls : Do(c)
DidBuild == \E c \in DidBuildCalls : Do(c)
WillExecute == \E c \in WillExecuteCalls : Do(c)
OnChildProcessStdoutLine == \E c \in StdoutLineCalls : Do(c)
OnChildProcessStderrLine == \E c \in StderrLineCalls : Do(c)
DidExecute == \E c \in DidExecuteCalls : Do(c)
Message == \E c \in MessageCalls : Do(c)
Warning == \E c \in WarningCalls : Do(c)
WriteRaw == \E c \in WriteRawCalls : Do(c)
\* the ticker's Renderer::render_now; no ticker exists when LINEAR
RenderNow == ~linear /\ Do(RenderNowCall)

Next ==
    \/ WillBuild
    \/ DidBuild
    \/ WillExecute
    \/ OnChildProcessStdoutLine
    \/ OnChildProcessStderrLine
    \/ DidExecute
    \/ Message
    \/ Warning
    \/ WriteRaw
    \/ RenderNow

Spec == Init /\ [][Next]_vars

(***************************************************************************)
(* The spinner: the same calls while time passes.                          *)
(***************************************************************************)
SpinnerCalls ==
    {[op |-> "will_build", task |-> "all", arg |-> "", num_steps |-> 1, reasons |-> 0],
     [op |-> "did_build", task |-> "all", arg |-> "complete_fresh"],
     [op |-> "write_raw_stdout", task |-> NoTask, arg |-> "", bytes |-> <<"x">>]}

InitSpinner ==
    /\ Unused
    /\ \E LINEAR \in BOOLEAN :
           new(LINEAR, Settings(FALSE, FALSE, FALSE, FALSE, FALSE), "Ansi", "Ansi")

\* time passes between two calls
Elapse ==
    /\ clock < MaxTime
    /\ \E d \in Delays : clock' = clock + d
    /\ UNCHANGED <<ovars, linear, settings, streams, renderer, ev, out, term, buf, cvars>>

\* a Watcher call of a worker
SpinnerEvent == \E c \in SpinnerCalls : Do(c)

NextSpinner ==
    \/ Elapse
    \/ SpinnerEvent
    \/ RenderNow

SpecSpinner == InitSpinner /\ [][NextSpinner]_vars

(***************************************************************************)
(* The threaded runs: worker threads call the Watcher methods while the    *)
(* ticker task renders.  A call takes the mutex, runs its handler (the     *)
(* state update and the list of writes), performs the writes one by one    *)
(* and releases the mutex when the guard is dropped at the end of the      *)
(* statement.                                                              *)
(***************************************************************************)
ThreadedCalls ==
    {[op |-> "will_build", task |-> "all", arg |-> "", num_steps |-> 1, reasons |-> 1],
     [op |-> "did_build", task |-> "all", arg |-> "err"],
     [op |-> "will_execute", task |-> "all", arg |-> "", step |-> 0, num_steps |-> 1],
     [op |-> "stdout_line", task |-> "all", arg |-> "forward", line |-> "x"],
     [op |-> "stdout_line", task |-> "all", arg |-> "capture", line |-> "x"],
     [op |-> "stderr_line", task |-> "all", arg |-> "loud", line |-> "x"],
     [op |-> "did_execute", task |-> "all", arg |-> "failure"],
     [op |-> "message", task |-> NoTask, arg |-> "", text |-> "m"],
     [op |-> "write_raw_stdout", task |-> NoTask, arg |-> "", bytes |-> <<"x">>]}

InitThreaded ==
    /\ Unused
    /\ \E LINEAR \in BOOLEAN :
           new(LINEAR, Settings(TRUE, TRUE, TRUE, TRUE, TRUE), "Ansi", "Ansi")

\* Mutex::lock returns once no other thread owns the mutex
MutexFree == mutex = "none"

\* TerminalWatcher::on_child_process_stdout_line locks only inside `if !capture`
TakesLock(c) == c.op = "stdout_line" => stdout_line_forwarded(c.arg = "capture")

\* a worker enters a Watcher method; &self needs the TerminalWatcher alive
Call(w) ==
    /\ wpc[w] = "idle"
    /\ owner = "all"
    /\ ncalls < MaxCalls
    /\ \E c \in ThreadedCalls :
        /\ wcall' = [wcall EXCEPT ![w] = [id |-> ncalls + 1, c |-> c]]
        /\ wpc' = [wpc EXCEPT ![w] = IF TakesLock(c) THEN "lock" ELSE "idle"]
    /\ ncalls' = ncalls + 1
    /\ UNCHANGED <<rvars, mutex, pending, log, tpc, strong, owner>>

\* self.inner.lock() followed by the handler
Locked(t) ==
    /\ MutexFree
    /\ mutex' = t
    /\ LET c == wcall[t].c
           h == Handle(renderer, c)
       IN  /\ renderer' = h.r
           /\ pending' = [pending EXCEPT ![t] = h.w]

\* the handler panics at expect("task not registered")
Panics(t) == Event(renderer, wcall[t].c).arg = "panic"

Acquire(w) ==
    /\ wpc[w] = "lock"
    /\ Locked(w)
    /\ wpc' = [wpc EXCEPT ![w] = IF Panics(w) THEN "unwind" ELSE "write"]
    /\ UNCHANGED <<ovars, clock, linear, settings, streams, ev, out, term, buf,
                   wcall, ncalls, log, tpc, strong, owner>>

\* one write_all / write! / flush on a stream
Written(t) ==
    /\ pending[t] # <<>>
    /\ LET d == WriteTok([buf |-> buf, fds |-> <<>>], Head(pending[t]), wcall[t].id)
       IN  /\ buf' = d.buf
           /\ log' = log \o [i \in 1..Len(d.fds) |-> d.fds[i].id]
           /\ term' = ApplyAll(term, d.fds)
    /\ pending' = [pending EXCEPT ![t] = Tail(@)]

Write(w) ==
    /\ wpc[w] = "write"
    /\ Written(w)
    /\ UNCHANGED <<ovars, clock, linear, settings, streams, renderer, ev, out,
                   mutex, wpc, wcall, ncalls, tpc, strong, owner>>

\* a guard that is lost, not dropped, when the handler panics
Release_leaks(w) ==
    /\ \/ wpc[w] = "write" /\ pending[w] = <<>>
       \/ wpc[w] = "unwind"
    /\ mutex' = IF wpc[w] = "unwind" THEN mutex ELSE "none"
    /\ wpc' = [wpc EXCEPT ![w] = IF wpc[w] = "unwind" THEN "panicked" ELSE "idle"]
    /\ UNCHANGED <<rvars, wcall, pending, ncalls, log, tpc, strong, owner>>

\* the MutexGuard is dropped: at the end of the call, or while a panic unwinds
Release(w) ==
    /\ \/ wpc[w] = "write" /\ pending[w] = <<>>
       \/ wpc[w] = "unwind"
    /\ mutex' = "none"
    /\ wpc' = [wpc EXCEPT ![w] = IF wpc[w] = "unwind" THEN "panicked" ELSE "idle"]
    /\ UNCHANGED <<rvars, wcall, pending, ncalls, log, tpc, strong, owner>>

\* Weak::upgrade succeeds while a strong reference is left
upgrade_always(n) == TRUE

upgrade(n) == n > 0

\* the timer fires: `let Some(renderer) = renderer.upgrade() else { return }`
TickerWake ==
    /\ tpc = "sleep"
    /\ owner # "none"
    /\ IF upgrade(strong)
       THEN /\ ncalls < MaxCalls
            /\ strong' = strong + 1
            /\ tpc' = "lock"
            /\ ncalls' = ncalls + 1
            /\ wcall' = [wcall EXCEPT !["ticker"] = [id |-> ncalls + 1, c |-> RenderNowCall]]
       ELSE /\ tpc' = "done"
            /\ UNCHANGED <<strong, ncalls, wcall>>
    /\ UNCHANGED <<rvars, mutex, wpc, pending, log, owner>>

\* Renderer::render_now: this.lock() and render_lines
TickerAcquire ==
    /\ tpc = "lock"
    /\ Locked("ticker")
    /\ tpc' = "write"
    /\ UNCHANGED <<ovars, clock, linear, settings, streams, ev, out, term, buf,
                   wpc, wcall, ncalls, log, strong, owner>>

TickerWrite ==
    /\ tpc = "write"
    /\ Written("ticker")
    /\ UNCHANGED <<ovars, clock, linear, settings, streams, renderer, ev, out,
                   mutex, wpc, wcall, ncalls, tpc, strong, owner>>

\* render_now returns and drops the guard
TickerRelease ==
    /\ tpc = "write"
    /\ pending["ticker"] = <<>>
    /\ mutex' = "none"
    /\ tpc' = "drop"
    /\ UNCHANGED <<rvars, wpc, wcall, pending, ncalls, log, strong, owner>>

\* end of the loop body: the upgraded Arc is dropped, the task awaits the
\* next timer; a task whose handle was dropped is cancelled at that await
\* the Arc obtained from upgrade() goes out of scope: one strong reference less
drop_upgraded_kept(n) == n

drop_upgraded(n) == n - 1

TickerLoop ==
    /\ tpc = "drop"
    /\ strong' = drop_upgraded(strong)
    /\ tpc' = IF owner = "none" THEN "done" ELSE "sleep"
    /\ UNCHANGED <<rvars, mutex, wpc, wcall, pending, ncalls, log, owner>>

\* a sleeping task whose smol::Task handle was dropped is cancelled
TickerCancelled ==
    /\ tpc = "sleep"
    /\ owner = "none"
    /\ tpc' = "done"
    /\ UNCHANGED <<rvars, mutex, wpc, wcall, pending, ncalls, log, strong, owner>>

\* drop(TerminalWatcher): the fields are dropped in declaration order,
\* `inner` first; no call borrows the watcher any more
DropInner ==
    /\ owner = "all"
    /\ \A w \in Workers : wpc[w] \in {"idle", "panicked"}
    /\ strong' = strong - 1
    /\ owner' = "task"
    /\ UNCHANGED <<rvars, mutex, wpc, wcall, pending, ncalls, log, tpc>>

\* ... then `_render_task`
DropTask ==
    /\ owner = "task"
    /\ owner' = "none"
    /\ UNCHANGED <<rvars, mutex, wpc, wcall, pending, ncalls, log, tpc, strong>>

WorkerStep == \E w \in Workers : Acquire(w) \/ Write(w) \/ Release(w)

TickerStep ==
    \/ TickerWake
    \/ TickerAcquire
    \/ TickerWrite
    \/ TickerRelease
    \/ TickerLoop
    \/ TickerCancelled

NextThreaded ==
    \/ \E w \in Workers : Call(w)
    \/ \E w \in Workers : Acquire(w)
    \/ \E w \in Workers : Write(w)
    \/ \E w \in Workers : Release(w)
    \/ TickerWake
    \/ TickerAcquire
    \/ TickerWrite
    \/ TickerRelease
    \/ TickerLoop
    \/ TickerCancelled
    \/ DropInner
    \/ DropTask

\* every thread that can run does run; a drop that began finishes
SpecThreaded ==
    /\ InitThreaded
    /\ [][NextThreaded]_vars
    /\ WF_vars(WorkerStep)
    /\ WF_vars(TickerStep)
    /\ WF_vars(DropTask)

(***************************************************************************)
(* AutoStreamKind::detect (src/werk-cli/watcher.rs).  The platform queries *)
(* are inputs: anstyle_query::no_color, clicolor_force,                    *)
(* stdout().is_terminal(), windows::enable_ansi_colors (an Option<bool>,   *)
(* None off Windows), term_supports_ansi_color, and cfg(windows).          *)
(***************************************************************************)
ColorChoices == {"Auto", "Always", "Never"}

OptionBool == {"None", "Some(true)", "Some(false)"}

Probes ==
    {p \in [choice : ColorChoices, no_color : BOOLEAN, clicolor_force : BOOLEAN,
            is_terminal : BOOLEAN, enable_ansi_colors : OptionBool,
            term_supports_ansi_color : BOOLEAN, windows : BOOLEAN] :
        ~p.windows => p.enable_ansi_colors = "None"}

\* Option<bool>::unwrap_or
unwrap_or(o, default) == IF o = "None" THEN default ELSE o = "Some(true)"

detect(p) ==
    CASE p.choice = "Auto" ->
            IF p.no_color THEN "Strip"
            ELSE LET ansi == IF p.clicolor_force \/ p.is_terminal
                             THEN unwrap_or(p.enable_ansi_colors, TRUE)
                             ELSE FALSE
                     term_supports_ansi_color == ansi \/ p.term_supports_ansi_color
                 IN  IF term_supports_ansi_color THEN "Ansi"
                     ELSE IF p.windows /\ p.is_terminal THEN "Wincon"
                     ELSE "Strip"
      [] p.choice = "Always" ->
            IF p.enable_ansi_colors = "Some(false)" THEN "Strip" ELSE "Ansi"
      [] p.choice = "Never" -> "Strip"

InitDetect ==
    /\ probes \in Probes
    /\ kind = "none"
    /\ source_code = <<>>
    /\ parsed = NotParsed
    /\ new(FALSE, Settings(FALSE, FALSE, FALSE, FALSE, FALSE), "Ansi", "Ansi")

Detect ==
    /\ kind = "none"
    /\ kind' = detect(probes)
    /\ UNCHANGED <<probes, source_code, parsed, clock, linear, settings, streams, renderer,
                   ev, out, term, buf, cvars>>

SpecDetect == InitDetect /\ [][Detect]_vars

(***************************************************************************)
(* The parser of werk files (src/werk-parser/parser.rs).  A source is a    *)
(* sequence of tokens, each standing for its text: a word (keyword or      *)
(* identifier), a punctuation character, one whitespace character, a       *)
(* comment without its line ending, or, between two quote tokens, a piece  *)
(* of the text of a literal ("=>" is the two tokens "=" and ">").  A word  *)
(* that begins with a keyword is two tokens, the keyword and the rest of   *)
(* the word (`letter` is "let", "ter"; `tasks` is "task", "s"), since      *)
(* T::TOKEN matches the head of a word; word tokens that follow each other *)
(* directly are one word.  No word is a keyword followed by '-' or '_',    *)
(* and the token after a backslash is a single character.  Positions are   *)
(* token indices (a position inside a word is the index of its second      *)
(* token), offsets and spans are in bytes of the text.  A parser is an     *)
(* operator                                                                *)
(* from (source, position) to a result: Ok with the position after what it *)
(* consumed and the AST node it built, or a winnow error                   *)
(* (ErrMode::Backtrack or ErrMode::Cut) with the position the input was    *)
(* left at and the Expected payload of the ContextError.  The ErrorKind    *)
(* inside Expected::Internal and the context stack of the ContextError are *)
(* not modelled, nor are the whitespace and token fields of the AST nodes. *)
(* A backquote of a message text is written as an apostrophe, since a      *)
(* TLA+ string cannot hold a backquote.  Bind and AndThen give a name to a *)
(* value that is computed once, as `let` does in the code.                 *)
(***************************************************************************)
Keywords ==
    {"config", "let", "task", "build", "from", "depfile", "run", "info", "warn",
     "error", "match", "shell", "glob", "which", "join", "env", "write", "copy",
     "true", "false"}

Idents ==
    {"a", "t", "out-dir", "print-commands", "edition", "default", "jobs"}

\* what follows the keyword in the words `letter` and `tasks`
WordTails == {"ter", "s"}

Comments == {"#c"}

\* the token starts with an alphanumeric character
IsWord(t) == t \in Keywords \cup Idents \cup WordTails

Tok(s, i) == IF i >= 1 /\ i <= Len(s) THEN s[i] ELSE ""

\* the text of the tokens i .. j-1
RECURSIVE Text(_, _, _)
Text(s, i, j) == IF i >= j THEN "" ELSE s[i] \o Text(s, i + 1, j)

\* Located::location() with the input at token i: the number of bytes of
\* the tokens before i
Offset(s, i) ==
    Cardinality(UNION {{<<j, b>> : b \in 1..Len(s[j])} : j \in 1..(i - 1)})

\* a span whose start is read after the parser has run
Span_after(s, i, j) == <<Offset(s, j), Offset(s, j)>>

\* span(start..end) of the tokens i .. j-1
Span(s, i, j) == <<Offset(s, i), Offset(s, j)>>

NoExpected == [k |-> "", text |-> "", span |-> <<0, 0>>]

Internal == [k |-> "Internal", text |-> "", span |-> <<0, 0>>]

Expected(text) == [k |-> "Expected", text |-> text, span |-> <<0, 0>>]

Description(text, sp) == [k |-> "Description", text |-> text, span |-> sp]

Node(k, sp) == [kind |-> k, span |-> sp]

Ok(i, v) == [ok |-> TRUE, cut |-> FALSE, pos |-> i, val |-> v, exp |-> NoExpected]

\* impl From<Expected> for ErrMode<ContextError>
Backtrack(i, e) ==
    [ok |-> FALSE, cut |-> FALSE, pos |-> i, val |-> Node("", <<0, 0>>), exp |-> e]

Cut(i, e) ==
    [ok |-> FALSE, cut |-> TRUE, pos |-> i, val |-> Node("", <<0, 0>>), exp |-> e]

\* `let x = v;` : v is computed once and F applied to its value
Bind(v, F(_)) == CHOOSE y \in {F(x) : x \in {v}} : TRUE

\* `let x = r?;` : the error of r is returned, F is applied to its Ok
AndThen(r, F(_)) == CHOOSE y \in {IF x.ok THEN F(x) ELSE x : x \in {r}} : TRUE

\* a cut_err that leaves the error as it is
cut_err_backtrack(r) == r

\* winnow::combinator::cut_err
cut_err(r) ==
    CHOOSE y \in {IF x.ok THEN x ELSE [x EXCEPT !.cut = TRUE] : x \in {r}} : TRUE

\* Parser::context(Expected): AddContext replaces the payload of the error
context(r, e) ==
    CHOOSE y \in {IF x.ok THEN x ELSE [x EXCEPT !.exp = e] : x \in {r}} : TRUE

\* winnow::combinator::alt, given the results of the alternatives at the
\* same position: the first result that is Ok or a Cut, else the error of
\* the last alternative
alt(alternatives) ==
    CHOOSE y \in {IF \E j \in DOMAIN rs : rs[j].ok \/ rs[j].cut
                  THEN rs[CHOOSE j \in DOMAIN rs :
                             /\ rs[j].ok \/ rs[j].cut
                             /\ \A k \in 1..(j - 1) : ~(rs[k].ok \/ rs[k].cut)]
                  ELSE rs[Len(rs)] : rs \in {alternatives}} : TRUE

fail(i) == Backtrack(i, Internal)

\* an end of input that is found at every position
eof_anywhere(s, i) == Ok(i, Node("", <<0, 0>>))

eof(s, i) ==
    Bind(i, LAMBDA p :
        IF p > Len(s) THEN Ok(p, Node("", <<0, 0>>)) ELSE Backtrack(p, Internal))

\* the tokens of T::TOKEN: "=>" is two tokens
Literal(T) == IF T = "=>" THEN <<"=", ">">> ELSE <<T>>

\* T::TOKEN as a parser
literal(T, s, i) ==
    Bind(i, LAMBDA p :
        IF \A j \in 1..Len(Literal(T)) : Tok(s, p + j - 1) = Literal(T)[j]
        THEN Ok(p + Len(Literal(T)), Node(T, Span(s, p, p + Len(Literal(T)))))
        ELSE Backtrack(p, Internal))

token(CHAR, s, i) == literal(CHAR, s, i)

then_arrow(s, i) == literal("=>", s, i)

\* terminated(T::TOKEN, peek(end_of_keyword))
keyword(T, s, i) ==
    AndThen(literal(T, s, i), LAMBDA l :
        IF l.pos > Len(s) \/ ~IsWord(s[l.pos]) THEN l
        ELSE Backtrack(l.pos, Internal))

\* the first line ending character at or after token i
RECURSIVE LineBreak(_, _)
LineBreak(s, i) ==
    IF i > Len(s) \/ s[i] \in {"\r", "\n"} THEN i ELSE LineBreak(s, i + 1)

\* position after (till_line_ending, line_ending); everything up to the end
\* of the input when that fails
until_eol_or_eof(s, i) ==
    Bind(LineBreak(s, i), LAMBDA j :
        IF j > Len(s) THEN Len(s) + 1
        ELSE IF s[j] = "\n" THEN j + 1
        ELSE IF Tok(s, j + 1) = "\n" THEN j + 2
        ELSE Len(s) + 1)

RECURSIVE ws_part(_, _, _, _)
ws_part(s, i, has_newlines, has_comments) ==
    IF i > Len(s)
    THEN [pos |-> i, has_newlines |-> has_newlines, has_comments |-> has_comments]
    ELSE IF s[i] \in Comments
    THEN Bind(until_eol_or_eof(s, i + 1), LAMBDA j :
              ws_part(s, j, has_newlines, TRUE))
    ELSE IF s[i] \in {" ", "\t", "\r"}
    THEN ws_part(s, i + 1, has_newlines, has_comments)
    ELSE IF s[i] = "\n"
    THEN ws_part(s, i + 1, TRUE, has_comments)
    ELSE [pos |-> i, has_newlines |-> has_newlines, has_comments |-> has_comments]

whitespace_parsed(s, i) ==
    Bind(i, LAMBDA start :
    Bind(ws_part(s, start, FALSE, FALSE), LAMBDA p :
        Ok(p.pos, [kind |-> "ws", span |-> Span(s, start, p.pos),
                   has_newlines |-> p.has_newlines,
                   has_comments |-> p.has_comments])))

whitespace_parsed_nonempty(s, i) ==
    Bind(whitespace_parsed(s, i), LAMBDA w :
        IF w.val.span[2] > w.val.span[1] THEN w ELSE Backtrack(i, Internal))

\* ParsedWhitespace::into_whitespace
into_whitespace(ws) == Node("ws", ws.span)

whitespace(s, i) ==
    Bind(whitespace_parsed(s, i), LAMBDA w : Ok(w.pos, into_whitespace(w.val)))

whitespace_nonempty(s, i) ==
    AndThen(whitespace_parsed_nonempty(s, i), LAMBDA w :
        Ok(w.pos, into_whitespace(w.val)))

\* a separator that looks for newlines only
is_statement_separator_newlines(ws) == ws.has_newlines

is_statement_separator(ws) == ws.has_newlines \/ ws.has_comments

\* take_while(0.., is_identifier_continue): the position after the word
\* that starts at token i
RECURSIVE WordEnd(_, _)
WordEnd(s, i) == IF IsWord(Tok(s, i)) THEN WordEnd(s, i + 1) ELSE i

\* identifier_literal with its span: KEYWORDS holds "let" only, and verify
\* leaves the input at the start of the word
identifier(s, i) ==
    Bind(i, LAMBDA p :
        IF ~IsWord(Tok(s, p)) THEN Backtrack(p, Expected("identifier"))
        ELSE Bind(WordEnd(s, p), LAMBDA e :
            IF Text(s, p, e) = "let" THEN Backtrack(p, Internal)
            ELSE Ok(e, [kind |-> "ident", span |-> Span(s, p, e),
                        ident |-> Text(s, p, e)])))

(***************************************************************************)
(* String and pattern literals.  The interpolation and one-of parsers and  *)
(* push_string_fragment / push_pattern_fragment are in parse_string.rs;    *)
(* they are modelled as the specification describes them (4.2) and as the  *)
(* tests of parser.rs show them: an interpolation is a stem between its    *)
(* delimiters, an escaped character joins the Literal before it and an     *)
(* escaped whitespace run adds no fragment.                                *)
(***************************************************************************)
\* the characters that end a literal run
special(IS_PATTERN) ==
    {"\"", "\\", "{", "}", "<", ">"} \cup (IF IS_PATTERN THEN {"(", ")", "%"} ELSE {})

\* take_till(1.., special): the position after the run that starts at i
RECURSIVE take_till(_, _, _)
take_till(stop, s, i) ==
    IF i > Len(s) \/ s[i] \in stop THEN i ELSE take_till(stop, s, i + 1)

string_literal_fragment(IS_PATTERN, s, i) ==
    Bind(take_till(special(IS_PATTERN), s, i), LAMBDA j :
        IF j > i THEN Ok(j, [kind |-> "Literal", text |-> Text(s, i, j)])
        ELSE Backtrack(i, Internal))

\* the character '\0', which a TLA+ string cannot hold
NUL == "NUL"

\* dispatch! of escaped_char: the character each escape stands for
escape_seq_char ==
    [c \in {"\\", "{", "}", "<", ">", "%", "(", ")", "\"", "n", "r", "t", "0"} |->
        CASE c = "n" -> "\n"
          [] c = "r" -> "\r"
          [] c = "t" -> "\t"
          [] c = "0" -> NUL
          [] OTHER -> c]

escaped_char(s, i) ==
    IF Tok(s, i) # "\\" THEN Backtrack(i, Internal)
    ELSE IF i + 1 > Len(s) THEN Backtrack(i + 1, Internal)
    ELSE IF s[i + 1] \in DOMAIN escape_seq_char
    THEN Ok(i + 2, [kind |-> "EscapedChar", ch |-> escape_seq_char[s[i + 1]]])
    ELSE Backtrack(i + 2, Expected("valid escape sequence"))

\* multispace1
RECURSIVE multispace(_, _)
multispace(s, i) ==
    IF i <= Len(s) /\ s[i] \in {" ", "\t", "\r", "\n"} THEN multispace(s, i + 1) ELSE i

escaped_whitespace(s, i) ==
    IF Tok(s, i) # "\\" THEN Backtrack(i, Internal)
    ELSE Bind(multispace(s, i + 1), LAMBDA j :
             IF j > i + 1 THEN Ok(j, [kind |-> "EscapedWhitespace"])
             ELSE Backtrack(i + 1, Internal))

\* string_interpolation ("{", "}") and path_interpolation ("<", ">")
interpolation(open, close, s, i) ==
    IF Tok(s, i) = open /\ IsWord(Tok(s, i + 1)) /\ Tok(s, i + 2) = close
    THEN Ok(i + 3, [kind |-> "Interpolation", stem |-> s[i + 1]])
    ELSE Backtrack(i, Internal)

\* "(a|b)": the alternatives of a pattern
pattern_one_of(s, i) ==
    IF Tok(s, i) = "(" /\ Tok(s, i + 2) = ")" /\ Tok(s, i + 1) \notin special(TRUE)
    THEN Ok(i + 3, [kind |-> "OneOf", text |-> s[i + 1]])
    ELSE Backtrack(i, Internal)

string_fragment(s, i) ==
    alt(<<string_literal_fragment(FALSE, s, i),
          escaped_char(s, i),
          escaped_whitespace(s, i),
          interpolation("{", "}", s, i),
          interpolation("<", ">", s, i)>>)

pattern_fragment(s, i) ==
    alt(<<IF Tok(s, i) = "%" THEN Ok(i + 1, [kind |-> "PatternStem"])
          ELSE Backtrack(i, Internal),
          pattern_one_of(s, i),
          string_literal_fragment(TRUE, s, i),
          escaped_char(s, i),
          escaped_whitespace(s, i),
          interpolation("{", "}", s, i),
          interpolation("<", ">", s, i)>>)

\* push_string_fragment and push_pattern_fragment
push_fragment(fragments, f) ==
    IF f.kind = "EscapedWhitespace" THEN fragments
    ELSE IF f.kind \in {"Literal", "EscapedChar"}
    THEN Bind(IF f.kind = "Literal" THEN f.text ELSE f.ch, LAMBDA text :
         IF fragments # <<>> /\ fragments[Len(fragments)].kind = "Literal"
         THEN [fragments EXCEPT ![Len(fragments)].text = @ \o text]
         ELSE Append(fragments, [kind |-> "Literal", text |-> text]))
    ELSE Append(fragments, f)

\* a fold that appends every fragment as it comes
RECURSIVE repeat_fragment_append(_, _, _, _)
repeat_fragment_append(IS_PATTERN, s, i, fragments) ==
    Bind(IF IS_PATTERN THEN pattern_fragment(s, i) ELSE string_fragment(s, i),
         LAMBDA f :
        IF f.ok THEN repeat_fragment_append(IS_PATTERN, s, f.pos, Append(fragments, f.val))
        ELSE IF f.cut THEN f
        ELSE Ok(i, fragments))

\* repeat(0.., fragment).fold(default, push): ends at the first fragment
\* that backtracks
RECURSIVE repeat_fragment(_, _, _, _)
repeat_fragment(IS_PATTERN, s, i, fragments) ==
    Bind(IF IS_PATTERN THEN pattern_fragment(s, i) ELSE string_fragment(s, i),
         LAMBDA f :
        IF f.ok THEN repeat_fragment(IS_PATTERN, s, f.pos, push_fragment(fragments, f.val))
        ELSE IF f.cut THEN f
        ELSE Ok(i, fragments))

\* delimited('"', inside, cut_err('"')).with_token_span()
quoted(IS_PATTERN, s, i) ==
    IF Tok(s, i) # "\"" THEN Backtrack(i, Internal)
    ELSE AndThen(repeat_fragment(IS_PATTERN, s, i + 1, <<>>), LAMBDA inside :
             IF Tok(s, inside.pos) = "\""
             THEN Ok(inside.pos + 1,
                     [kind |-> IF IS_PATTERN THEN "pattern" ELSE "string",
                      span |-> Span(s, i, inside.pos + 1),
                      fragments |-> inside.val])
             ELSE Cut(inside.pos, Internal))

string_expr(s, i) == quoted(FALSE, s, i)

pattern_expr(s, i) == quoted(TRUE, s, i)

\* characters among which a backslash is a character like any other
RECURSIVE escaped_string_char_plain(_, _)
escaped_string_char_plain(s, i) ==
    IF i > Len(s) \/ s[i] = "\"" THEN i ELSE escaped_string_char_plain(s, i + 1)

\* repeat(0.., escaped_string_char): the position after the characters
RECURSIVE escaped_string_char(_, _)
escaped_string_char(s, i) ==
    IF i > Len(s) \/ s[i] = "\"" THEN i
    ELSE IF s[i] # "\\" THEN escaped_string_char(s, i + 1)
    ELSE IF i + 1 > Len(s) THEN i
    ELSE escaped_string_char(s, i + 2)

escaped_string(s, i) ==
    IF Tok(s, i) # "\"" THEN Backtrack(i, Expected("string literal"))
    ELSE Bind(escaped_string_char(s, i + 1), LAMBDA j :
             IF Tok(s, j) = "\""
             THEN Ok(j + 1, [kind |-> "String", text |-> Text(s, i + 1, j)])
             ELSE Backtrack(j, Expected("string literal")))

(***************************************************************************)
(* The grammar.  A parser passed as an argument in the code is passed by   *)
(* its name and run by parse_next.  Whitespace between two parts of a      *)
(* sequence is consumed where the position of the next part is computed.   *)
(***************************************************************************)
RECURSIVE parse_next(_, _, _)
RECURSIVE expression_chain(_, _)
RECURSIVE expression_leaf(_, _)
RECURSIVE run_expression(_, _)
RECURSIVE body(_, _, _)

\* Span::merge (span.rs), as the specification defines it (3.1)
merge(a, b) ==
    <<IF a[1] <= b[1] THEN a[1] ELSE b[1], IF a[2] >= b[2] THEN a[2] ELSE b[2]>>

RECURSIVE list_loop(_, _, _, _, _, _, _)
list_loop(parse_item, s, open, i, has_separator, last_item_span, accum) ==
    LET close == token("]", s, i) IN
    IF close.ok
    THEN Ok(close.pos, [kind |-> "list", span |-> Span(s, open, close.pos),
                        items |-> accum])
    ELSE IF ~has_separator
    THEN Backtrack(i, Description("list items must be separated by commas",
                                  last_item_span))
    ELSE AndThen(cut_err(parse_next(parse_item, s, i)), LAMBDA item :
         LET whitespace_before_comma == whitespace(s, item.pos)
             comma == token(",", s, whitespace_before_comma.pos)
         IN  Bind(IF comma.ok THEN whitespace(s, comma.pos).pos
                  ELSE whitespace_before_comma.pos,
                  LAMBDA next :
                 list_loop(parse_item, s, open, next, comma.ok,
                           Span(s, i, item.pos), Append(accum, item.val))))

list_of(parse_item, s, i) ==
    AndThen(token("[", s, i), LAMBDA token_open :
    Bind(whitespace(s, token_open.pos).pos, LAMBDA next :
        list_loop(parse_item, s, i, next, TRUE, <<0, 0>>, <<>>)))

\* the context given to the string parameter of a keyword expression
StringAfter(T) ==
    IF T \in {"info", "warn"}
    THEN "'" \o T \o "' keyword must be followed by a string literal"
    ELSE "string literal after '" \o T \o "' keyword"

\* (keyword::<T>, whitespace_nonempty, cut_err(param)).with_token_span().
\* from_stmt, build_stmt, depfile_stmt (param expression_chain), run_stmt
\* (param run_expression) and info_expr, warn_expr, error_expr, shell_expr,
\* glob_expr, which_expr, join_expr, env_expr (param string_expr with its
\* context) are kw_expr of their keyword.
kw_expr(T, param, s, i) ==
    AndThen(keyword(T, s, i), LAMBDA token_T :
    AndThen(whitespace_nonempty(s, token_T.pos), LAMBDA ws_1 :
    AndThen(cut_err(IF param = "string_expr"
                    THEN context(string_expr(s, ws_1.pos), Expected(StringAfter(T)))
                    ELSE parse_next(param, s, ws_1.pos)), LAMBDA value :
        Ok(value.pos, [kind |-> T, span |-> Span(s, i, value.pos),
                       param |-> value.val]))))

match_arm(s, i) ==
    AndThen(cut_err(context(pattern_expr(s, i),
                Expected("match arm must start with a pattern literal"))),
            LAMBDA pattern :
    AndThen(cut_err(context(keyword("=>", s, whitespace(s, pattern.pos).pos),
                Expected("match arm is missing a '=>'"))),
            LAMBDA token_fat_arrow :
    AndThen(cut_err(expression_chain(s, whitespace(s, token_fat_arrow.pos).pos)),
            LAMBDA expr :
        Ok(expr.pos, [kind |-> "match_arm", span |-> Span(s, i, expr.pos),
                      pattern |-> pattern.val, expr |-> expr.val]))))

match_expr(s, i) ==
    AndThen(keyword("match", s, i), LAMBDA token_match :
    AndThen(cut_err(body("match_arm", s, whitespace(s, token_match.pos).pos)),
            LAMBDA b :
        Ok(b.pos, [kind |-> "match", span |-> Span(s, i, b.pos), body |-> b.val])))

expression_leaf(s, i) ==
    alt(<<string_expr(s, i),
          list_of("expression_chain", s, i),
          kw_expr("shell", "string_expr", s, i),
          kw_expr("glob", "string_expr", s, i),
          kw_expr("which", "string_expr", s, i),
          kw_expr("join", "string_expr", s, i),
          kw_expr("env", "string_expr", s, i),
          match_expr(s, i),
          kw_expr("info", "string_expr", s, i),
          kw_expr("warn", "string_expr", s, i),
          kw_expr("error", "string_expr", s, i),
          identifier(s, i)>>)

\* a chain that nests to the right: Then(l0, Then(l1, l2))
RECURSIVE expression_chain_link_right(_, _, _)
expression_chain_link_right(s, expr, i) ==
    Bind(then_arrow(s, whitespace(s, i).pos), LAMBDA arrow :
        IF ~arrow.ok THEN Ok(i, expr)
        ELSE AndThen(cut_err(expression_leaf(s, whitespace(s, arrow.pos).pos)),
                     LAMBDA then :
             AndThen(expression_chain_link_right(s, then.val, then.pos), LAMBDA rest :
                 Ok(rest.pos,
                    [kind |-> "Then", span |-> merge(expr.span, rest.val.span),
                     expr |-> expr, then |-> rest.val]))))

\* repeat(0.., (whitespace, then_arrow, whitespace, cut_err(expression_leaf)))
\* folded into ThenExpr nodes; the repetition ends where a link backtracks
RECURSIVE expression_chain_link(_, _, _)
expression_chain_link(s, expr, i) ==
    Bind(then_arrow(s, whitespace(s, i).pos), LAMBDA arrow :
        IF ~arrow.ok THEN Ok(i, expr)
        ELSE AndThen(cut_err(expression_leaf(s, whitespace(s, arrow.pos).pos)),
                     LAMBDA then :
                 expression_chain_link(s,
                     [kind |-> "Then", span |-> merge(expr.span, then.val.span),
                      expr |-> expr, then |-> then.val],
                     then.pos)))

expression_chain(s, i) ==
    AndThen(expression_leaf(s, i), LAMBDA expr :
        expression_chain_link(s, expr.val, expr.pos))

write_expr(s, i) ==
    AndThen(keyword("write", s, i), LAMBDA token_write :
    AndThen(cut_err(expression_leaf(s, whitespace(s, token_write.pos).pos)),
            LAMBDA path :
    AndThen(token(",", s, whitespace(s, path.pos).pos), LAMBDA token_comma :
    AndThen(cut_err(expression_leaf(s, whitespace(s, token_comma.pos).pos)),
            LAMBDA value :
        Ok(value.pos, [kind |-> "write", span |-> Span(s, i, value.pos),
                       path |-> path.val, value |-> value.val])))))

copy_expr(s, i) ==
    AndThen(keyword("copy", s, i), LAMBDA token_copy :
    AndThen(cut_err(string_expr(s, whitespace(s, token_copy.pos).pos)),
            LAMBDA src :
    AndThen(token(",", s, whitespace(s, src.pos).pos), LAMBDA token_comma :
    AndThen(cut_err(string_expr(s, whitespace(s, token_comma.pos).pos)),
            LAMBDA dest :
        Ok(dest.pos, [kind |-> "copy", span |-> Span(s, i, dest.pos),
                      src |-> src.val, dest |-> dest.val])))))

run_expression(s, i) ==
    alt(<<kw_expr("shell", "string_expr", s, i),
          list_of("run_expression", s, i),
          kw_expr("shell", "string_expr", s, i),
          kw_expr("info", "string_expr", s, i),
          kw_expr("warn", "string_expr", s, i),
          write_expr(s, i),
          copy_expr(s, i),
          body("run_expression", s, i)>>)

let_stmt(s, i) ==
    AndThen(keyword("let", s, i), LAMBDA token_let :
    AndThen(context(cut_err(whitespace_nonempty(s, token_let.pos)),
                Expected("whitespace after 'let'")),
            LAMBDA ws_1 :
    AndThen(cut_err(context(identifier(s, ws_1.pos),
                Expected("'let' must be followed by an identifier"))),
            LAMBDA ident :
    AndThen(cut_err(token("=", s, whitespace(s, ident.pos).pos)), LAMBDA token_eq :
    AndThen(cut_err(expression_chain(s, whitespace(s, token_eq.pos).pos)),
            LAMBDA value :
        Ok(value.pos, [kind |-> "let", span |-> Span(s, i, value.pos),
                       ident |-> ident.val, value |-> value.val]))))))

task_recipe_stmt(s, i) ==
    alt(<<let_stmt(s, i),
          kw_expr("build", "expression_chain", s, i),
          kw_expr("run", "run_expression", s, i),
          kw_expr("info", "string_expr", s, i),
          kw_expr("warn", "string_expr", s, i),
          context(cut_err(fail(i)),
              Expected("'let', 'from', 'build', 'depfile', 'run', or 'echo' statement"))>>)

build_recipe_stmt(s, i) ==
    alt(<<kw_expr("from", "expression_chain", s, i),
          let_stmt(s, i),
          kw_expr("depfile", "expression_chain", s, i),
          kw_expr("run", "run_expression", s, i),
          kw_expr("info", "string_expr", s, i),
          kw_expr("warn", "string_expr", s, i),
          context(cut_err(fail(i)),
              Expected("'let', 'from', 'build', 'depfile', 'run', or 'echo' statement"))>>)

\* the loop of statements_delimited
RECURSIVE statements_loop(_, _, _, _, _, _, _, _)
statements_loop(item_parser, terminal, s, start, i, has_separator, last_item_span, accum) ==
    LET close == IF terminal = "peek(eof)" THEN eof(s, i) ELSE token(terminal, s, i) IN
    IF close.ok
    THEN Ok(close.pos, [kind |-> "body", span |-> Span(s, start, close.pos),
                        statements |-> accum])
    ELSE IF ~has_separator
    THEN Backtrack(i, Description("statements must be separated by semicolon or newlines",
                                  last_item_span))
    ELSE AndThen(parse_next(item_parser, s, i), LAMBDA item :
         Bind(whitespace_parsed(s, item.pos), LAMBDA whitespace_before_semicolon :
         LET semicolon == token(";", s, whitespace_before_semicolon.pos) IN
         IF semicolon.ok
         THEN statements_loop(item_parser, terminal, s, start,
                              whitespace_parsed(s, semicolon.pos).pos,
                              TRUE, Span(s, i, item.pos), Append(accum, item.val))
         ELSE statements_loop(item_parser, terminal, s, start,
                              whitespace_before_semicolon.pos,
                              is_statement_separator(whitespace_before_semicolon.val),
                              Span(s, i, item.pos), Append(accum, item.val))))

statements_delimited(initial, item_parser, terminal, s, i) ==
    AndThen(IF initial = "empty" THEN Ok(i, Node("", <<0, 0>>)) ELSE token(initial, s, i),
            LAMBDA open :
        statements_loop(item_parser, terminal, s, i,
                        whitespace_parsed(s, open.pos).pos, TRUE, <<0, 0>>, <<>>))

body(stmt_parser, s, i) == statements_delimited("{", stmt_parser, "}", s, i)

\* a table of keys that lets `jobs` through
ConfigKeys_jobs == {"print-commands", "edition", "out-dir", "default", "jobs"}

\* the keys of the match in config_stmt
ConfigKeys == {"print-commands", "edition", "out-dir", "default"}

config_value(key, s, i) ==
    IF key = "print-commands"
    THEN alt(<<AndThen(keyword("true", s, i), LAMBDA t :
                   Ok(t.pos, [kind |-> "Bool", value |-> TRUE])),
               AndThen(keyword("false", s, i), LAMBDA f :
                   Ok(f.pos, [kind |-> "Bool", value |-> FALSE])),
               context(fail(i), Expected("'true' or 'false' for 'print-commands'"))>>)
    ELSE cut_err(escaped_string(s, i))

config_stmt(s, i) ==
    AndThen(keyword("config", s, i), LAMBDA token_config :
    AndThen(cut_err(context(identifier(s, whitespace(s, token_config.pos).pos),
                Expected("'config' must be followed by an identifier"))),
            LAMBDA ident :
    AndThen(cut_err(token("=", s, whitespace(s, ident.pos).pos)), LAMBDA token_eq :
    AndThen(cut_err(config_value(ident.val.ident, s, whitespace(s, token_eq.pos).pos)),
            LAMBDA value :
        IF ident.val.ident \notin ConfigKeys
        THEN Cut(value.pos, Expected(
             "config key, one of 'out-dir', 'edition', 'print-commands', or 'default'"))
        ELSE IF ident.val.ident = "print-commands" /\ value.val.kind # "Bool"
        THEN Cut(value.pos, Expected("boolean value for 'print-commands'"))
        ELSE IF ident.val.ident # "print-commands" /\ value.val.kind # "String"
        THEN Cut(value.pos, Expected("string literal for '" \o ident.val.ident \o "'"))
        ELSE Ok(value.pos, [kind |-> "config", span |-> Span(s, i, value.pos),
                            ident |-> ident.val, value |-> value.val])))))

task_recipe(s, i) ==
    AndThen(keyword("task", s, i), LAMBDA token_task :
    AndThen(cut_err(context(identifier(s, whitespace(s, token_task.pos).pos),
                Expected("'task' must be followed by an identifier"))),
            LAMBDA name :
    AndThen(body("task_recipe_stmt", s, whitespace(s, name.pos).pos), LAMBDA b :
        Ok(b.pos, [kind |-> "task", span |-> Span(s, i, b.pos),
                   name |-> name.val, body |-> b.val]))))

build_recipe(s, i) ==
    AndThen(keyword("build", s, i), LAMBDA token_build :
    AndThen(cut_err(context(pattern_expr(s, whitespace(s, token_build.pos).pos),
                Expected("'build' must be followed by a string literal"))),
            LAMBDA pattern :
    AndThen(body("build_recipe_stmt", s, whitespace(s, pattern.pos).pos), LAMBDA b :
        Ok(b.pos, [kind |-> "build", span |-> Span(s, i, b.pos),
                   pattern |-> pattern.val, body |-> b.val]))))

root_stmt(s, i) ==
    alt(<<config_stmt(s, i),
          let_stmt(s, i),
          task_recipe(s, i),
          build_recipe(s, i),
          context(cut_err(fail(i)),
              Expected("'config', 'let', 'task', or 'build' statement"))>>)

parse_next(parser, s, i) ==
    CASE parser = "expression_chain" -> expression_chain(s, i)
      [] parser = "run_expression" -> run_expression(s, i)
      [] parser = "match_arm" -> match_arm(s, i)
      [] parser = "task_recipe_stmt" -> task_recipe_stmt(s, i)
      [] parser = "build_recipe_stmt" -> build_recipe_stmt(s, i)
      [] parser = "root_stmt" -> root_stmt(s, i)

root(s) == statements_delimited("empty", "root_stmt", "peek(eof)", s, 1)

\* span(err.offset()..err.offset())
error_span_wide(offset) == <<0, offset>>

error_span(offset) == <<offset, offset>>

\* Result<Document, Error>: the Root of the Document, or
\* Error::Werk(span, ContextError)
parse_werk(s) ==
    Bind(root(s), LAMBDA r :
        IF r.ok
        THEN [status |-> "Ok", span |-> r.val.span, expected |-> NoExpected,
              root |-> r.val]
        ELSE [status |-> "Err", span |-> error_span(Offset(s, r.pos)),
              expected |-> r.exp])

(***************************************************************************)
(* Sources given to parse_werk: two statements of one statement list with  *)
(* a separator between them, inside the text that opens and closes the     *)
(* list.                                                                   *)
(***************************************************************************)
\* the literals "s" and "%.o"
StringS == <<"\"", "s", "\"">>

PatternO == <<"\"", "%", ".o", "\"">>

LetA == <<"let", " ", "a", " ", "=", " ">> \o StringS

Statements(list) ==
    CASE list = "root" ->
           {LetA,
            <<"config", " ", "out-dir", " ", "=", " ">> \o StringS,
            <<"task", " ", "t", " ", "{", "}">>}
      [] list = "task" ->
           {LetA, <<"run", " ", "shell", " ">> \o StringS, <<"info", " ">> \o StringS,
            <<"build", " ">> \o PatternO}
      [] list = "build" ->
           {<<"from", " ">> \o StringS, LetA,
            <<"depfile", " ">> \o StringS, <<"run", " ", "shell", " ">> \o StringS}
      [] list = "run" ->
           {<<"shell", " ">> \o StringS, <<"info", " ">> \o StringS,
            <<"write", " ">> \o StringS \o <<",", " ">> \o StringS}
      [] list = "match" ->
           {PatternO \o <<" ", "=", ">", " ">> \o StringS,
            StringS \o <<" ", "=", ">", " ", "a">>}

\* runs of spaces and tabs
Blank == {<<" ">>, <<"\t">>, <<" ", "\t">>}

Separators ==
    Blank \cup {<<>>, <<";">>, <<" ", ";", " ">>, <<"\n">>, <<"\r", "\n">>,
                <<" ", "#c", "\n">>}

Open(list) ==
    CASE list = "root" -> <<>>
      [] list = "task" -> <<"task", " ", "t", " ", "{", " ">>
      [] list = "build" -> <<"build", " ">> \o PatternO \o <<" ", "{">>
      [] list = "run" -> <<"task", " ", "t", " ", "{", "run", " ", "{">>
      [] list = "match" -> <<"let", " ", "a", " ", "=", " ", "match", " ", "{">>

Close(list) ==
    CASE list = "root" -> <<>>
      [] list = "task" -> <<" ", "}">>
      [] list = "build" -> <<"}">>
      [] list = "run" -> <<"}", "}">>
      [] list = "match" -> <<"}">>

TwoStatements ==
    UNION {[list : {l}, first : Statements(l), sep : Separators,
            second : Statements(l)] : l \in {"root", "task", "build", "run", "match"}}

Source(d) == Open(d.list) \o d.first \o d.sep \o d.second \o Close(d.list)

\* the number of bytes of a source
Bytes(s) == Offset(s, Len(s) + 1)

\* the span of the first statement of Source(d)
FirstSpan(d) ==
    <<Bytes(Open(d.list)), Bytes(Open(d.list) \o d.first)>>

\* the offset of the second statement of Source(d)
SecondStart(d) == Bytes(Open(d.list) \o d.first \o d.sep)

InitParser ==
    /\ source_code \in {Source(d) : d \in TwoStatements}
    /\ parsed = NotParsed
    /\ probes = NoProbes
    /\ kind = "none"
    /\ new(FALSE, Settings(FALSE, FALSE, FALSE, FALSE, FALSE), "Ansi", "Ansi")

Parse ==
    /\ parsed.status = "none"
    /\ parsed' = parse_werk(source_code)
    /\ UNCHANGED <<probes, kind, source_code, clock, linear, settings, streams, renderer,
                   ev, out, term, buf, cvars>>

SpecParser == InitParser /\ [][Parse]_vars

(***************************************************************************)
(* Sources of one statement: expression chains, lists, words in the place  *)
(* of an identifier, config statements, statements that stop after their   *)
(* keyword, and literals with an escape.                                   *)
(***************************************************************************)
LetEq == <<"let", " ", "a", " ", "=", " ">>

ListA == <<"[", "a", "]">>

Leaves == {StringS, <<"a">>, ListA}

\* "=>" and the whitespace around it
Arrows == {<<" ", "=", ">", " ">>, <<"=", ">">>, <<"\n", "=", ">", "\n", " ">>}

\* what follows a last "=>" in the place of its right operand
NoOperand == {<<>>, <<" ">>, <<"}">>, <<"let">>, <<",">>, <<";">>}

\* l0 => l1 => ... : the leaves joined by the arrow
RECURSIVE Joined(_, _)
Joined(leaves, arrow) ==
    IF Len(leaves) = 1 THEN leaves[1]
    ELSE Joined(SubSeq(leaves, 1, Len(leaves) - 1), arrow) \o arrow \o leaves[Len(leaves)]

MaxLeaves == 3

Chains ==
    [leaves : UNION {[1..n -> Leaves] : n \in 1..MaxLeaves}, arrow : Arrows]

ChainSource(d) == LetEq \o Joined(d.leaves, d.arrow)

Dangling ==
    [leaves : UNION {[1..n -> Leaves] : n \in 1..(MaxLeaves - 1)}, arrow : Arrows,
     then : NoOperand]

DanglingSource(d) == ChainSource(d) \o d.arrow \o d.then

\* the items of a list, what stands between two of them and before "]"
Items == {StringS, ListA, <<"shell", " ">> \o StringS}

Commas == {<<",">>, <<",", " ">>, <<" ", ",", "\n">>}

NoCommas == {<<>>, <<" ">>, <<"\n">>, <<" ", "#c", "\n">>}

RunItems == {<<"shell", " ">> \o StringS, <<"info", " ">> \o StringS, <<"[", "]">>}

Lists ==
    [first : Items, between : Commas \cup NoCommas, second : Items,
     last : {<<>>, <<",">>, <<" ", ",", " ">>}, of : {"expression_chain"}]
    \cup
    [first : RunItems, between : Commas \cup NoCommas, second : RunItems,
     last : {<<>>, <<",">>, <<" ", ",", " ">>}, of : {"run_expression"}]

ListOpen(d) ==
    IF d.of = "expression_chain" THEN LetEq
    ELSE <<"task", " ", "t", " ", "{", "run", " ">>

ListSource(d) ==
    ListOpen(d) \o <<"[">> \o d.first \o d.between \o d.second \o d.last \o <<"]">>
        \o (IF d.of = "expression_chain" THEN <<>> ELSE <<"}">>)

\* the offset of the first item and of what follows it
FirstItem(d) ==
    <<Bytes(ListOpen(d)) + 1, Bytes(ListOpen(d)) + 1 + Bytes(d.first)>>

\* a word in the place of an identifier
Words == Keywords \cup {"tasks", "letter", "a"}

Places == {"let", "task", "value", "item", "then"}

WordIn == [word : Words, place : Places]

\* the tokens of a word
Tokens(word) ==
    CASE word = "letter" -> <<"let", "ter">>
      [] word = "tasks" -> <<"task", "s">>
      [] OTHER -> <<word>>

WordSource(d) ==
    CASE d.place = "let" -> <<"let", " ">> \o Tokens(d.word) \o <<" ", "=", " ">> \o StringS
      [] d.place = "task" -> <<"task", " ">> \o Tokens(d.word) \o <<" ", "{", "}">>
      [] d.place = "value" -> LetEq \o Tokens(d.word)
      [] d.place = "item" -> LetEq \o <<"[">> \o Tokens(d.word) \o <<"]">>
      [] d.place = "then" ->
            LetEq \o StringS \o <<" ", "=", ">", " ">> \o Tokens(d.word) \o <<"\n">>

\* config statements
ConfigIdents == ConfigKeys \cup {"jobs", "a"}

ConfigValues ==
    {StringS, <<"true">>, <<"false">>, <<"a">>, <<"\"", "s", "\\", "\"", "\"">>,
     <<"[", "]">>}

Configs == [key : ConfigIdents, value : ConfigValues, eq : {<<" ", "=", " ">>, <<"=">>}]

ConfigSource(d) == <<"config", " ", d.key>> \o d.eq \o d.value

\* the span of the key of ConfigSource(d)
KeySpan(d) == <<7, 7 + Bytes(<<d.key>>)>>

\* statements that fail after their leading keyword: the keyword and what
\* follows it
Stopped ==
    [list : {"root"},
     stmt : {<<"config">>, <<"config", " ", "out-dir">>,
             <<"config", " ", "out-dir", " ", "=">>,
             <<"let">>, <<"let", " ", "a">>, <<"let", " ", "a", " ", "=">>,
             <<"task">>, <<"task", " ", "t">>, <<"task", " ", "t", " ", "[", "]">>,
             <<"task", " ", "t", " ", "{">>,
             <<"build">>, <<"build", " ">> \o PatternO,
             <<"build", " ">> \o PatternO \o <<"[", "]">>}]
    \cup
    [list : {"task"},
     stmt : {<<"let">>, <<"let", " ", "a">>, <<"build">>, <<"build", " ">>,
             <<"build">> \o PatternO, <<"run">>, <<"run", " ">>,
             <<"run", " ", "shell">>, <<"run", "{">>, <<"info">>,
             <<"info">> \o StringS, <<"info", " ", "a">>, <<"warn">>,
             <<"warn", " ">>, <<"warn">> \o StringS}]
    \cup
    [list : {"build"},
     stmt : {<<"from">>, <<"from", " ">>, <<"from">> \o StringS,
             <<"depfile">>, <<"depfile", " ">>, <<"depfile">> \o StringS,
             <<"run">>, <<"run", "[", "]">>, <<"info">>, <<"warn">> \o StringS}]

StoppedSource(d) == Open(d.list) \o d.stmt \o Close(d.list)

\* literals with one escape: a backslash and what follows it
Escaped ==
    DOMAIN escape_seq_char \cup {"q", "a", "x", "s", "[", " ", "\t", "\n"}

Escapes ==
    [before : {<<>>, <<"x">>}, escaped : Escaped, after : {<<>>, <<" ">>, <<"x">>},
     IS_PATTERN : BOOLEAN]

Literal1(d) == <<"\"">> \o d.before \o <<"\\", d.escaped>> \o d.after \o <<"\"">>

EscapeSource(d) ==
    IF d.IS_PATTERN THEN <<"build", " ">> \o Literal1(d) \o <<" ", "{", "}">>
    ELSE LetEq \o Literal1(d)

\* literals of several pieces: a literal run, an escaped character, an
\* escaped space, the two interpolations and, in a pattern, the stem
Pieces(IS_PATTERN) ==
    {<<"x">>, <<"\\", "{">>, <<"\\", "n">>, <<"\\", " ">>, <<"{", "a", "}">>,
     <<"<", "a", ">">>}
    \cup (IF IS_PATTERN THEN {<<"%">>} ELSE {})

MaxPieces == 3

RECURSIVE Flat(_)
Flat(pieces) == IF pieces = <<>> THEN <<>> ELSE pieces[1] \o Flat(Tail(pieces))

\* `*.\{c,cpp\}` of tests::string_escape
StringEscape == <<"*.", "\\", "{", "c,cpp", "\\", "}">>

Literals ==
    UNION {[content : {Flat(ps) : ps \in [1..n -> Pieces(p)]}, IS_PATTERN : {p}] :
               n \in 0..MaxPieces, p \in BOOLEAN}
    \cup [content : {StringEscape}, IS_PATTERN : BOOLEAN]

LiteralSource(d) ==
    IF d.IS_PATTERN
    THEN <<"build", " ", "\"">> \o d.content \o <<"\"", " ", "{", "}">>
    ELSE LetEq \o <<"\"">> \o d.content \o <<"\"">>

\* statements inside statements: a match in a let, a run block and a list in
\* a build recipe, two statements in a task
Nestings ==
    {LetEq \o <<"match", " ", "{">> \o PatternO \o <<" ", "=", ">", " ">> \o StringS
         \o <<" ", "=", ">", " ">> \o ListA \o <<"}">>,
     <<"build", " ">> \o PatternO \o <<" ", "{", "from", " ", "[">> \o StringS
         \o <<",", " ", "a", "]", ";", "run", " ", "{", "write", " ">> \o StringS
         \o <<",", " ", "a", ";", "copy", " ">> \o StringS \o <<",", " ">> \o StringS
         \o <<"}", "}">>,
     <<"task", " ", "t", " ", "{">> \o LetA \o <<"\n", "build", " ">> \o ListA
         \o <<" ", "}", "\n">>}

\* a run of whitespace and comments after a statement, and what follows it
MaxRun == 4

Runs ==
    [run : UNION {[1..n -> {" ", "\r", "\n", "#c"}] : n \in 0..MaxRun},
     then : {LetA, <<>>}]

RunSource(d) == LetA \o d.run \o d.then

\* the token at which the run of RunSource(d) starts
RunStart == Len(LetA) + 1

\* string values of a config statement: plain text, escaped quotes and
\* backslashes, other escapes, and a quote that is not escaped
Chars == {<<"x">>, <<"\\", "\"">>, <<"\\", "\\">>, <<"\\", "n">>, <<"\\", "q">>, <<"\"">>}

MaxChars == 3

Strings == [chars : UNION {[1..n -> Chars] : n \in 0..MaxChars}]

OutDir == <<"config", " ", "out-dir", " ", "=", " ">>

StringSource(d) == OutDir \o <<"\"">> \o Flat(d.chars) \o <<"\"">>

StatementSources ==
    {ChainSource(d) : d \in Chains} \cup {DanglingSource(d) : d \in Dangling}
    \cup {ListSource(d) : d \in Lists} \cup {WordSource(d) : d \in WordIn}
    \cup {ConfigSource(d) : d \in Configs} \cup {StoppedSource(d) : d \in Stopped}
    \cup {EscapeSource(d) : d \in Escapes} \cup {LiteralSource(d) : d \in Literals}
    \cup Nestings \cup {RunSource(d) : d \in Runs}
    \cup {StringSource(d) : d \in Strings}

InitStatement ==
    /\ source_code \in StatementSources
    /\ parsed = NotParsed
    /\ probes = NoProbes
    /\ kind = "none"
    /\ new(FALSE, Settings(FALSE, FALSE, FALSE, FALSE, FALSE), "Ansi", "Ansi")

SpecStatement == InitStatement /\ [][Parse]_vars

(***************************************************************************)
(* Properties.                                                             *)
(***************************************************************************)
Interactive == ~linear

RawOps == {"write_raw_stdout", "write_raw_stderr"}

\* the last call went through render_lines / render_lines_stderr
Rendered ==
    \/ ev.op \in {"will_build", "did_build", "stderr_line", "message", "warning",
                  "render_now"}
    \/ ev.op = "will_execute" /\ ev.arg # "panic"
    \/ ev.op = "stdout_line" /\ ev.arg = "forward"
    \/ ev.op = "did_execute" /\ ev.arg # "success"

HasToken(w, k) == \E i \in 1..Len(w) : w[i].k = k

\* C1: num_completed_tasks <= num_tasks in every reachable state, for any
\* order of events and any task ids.
C1_CompletedAtMostTasks == renderer.num_completed_tasks <= renderer.num_tasks

\* C2: did_build for a task that is not in current_tasks changes none of
\* current_tasks, num_tasks and num_completed_tasks.
C2_DidBuildUnknownIsNoOp ==
    [][(ev'.op = "did_build" /\ ~Registered(renderer, ev'.task))
          => /\ renderer'.current_tasks = renderer.current_tasks
             /\ renderer'.num_tasks = renderer.num_tasks
             /\ renderer'.num_completed_tasks = renderer.num_completed_tasks]_vars

\* C3: the bytes of one call are contiguous in the output: between two
\* writes of the same call that have reached the terminal no byte of another
\* call, ticker render or raw write has reached it, and a thread has writes
\* left to do only while it owns the mutex.
C3_WritesContiguous ==
    /\ \A i, k \in 1..Len(log) :
          (i < k /\ log[i] = log[k]) => \A j \in i..k : log[j] = log[i]
    /\ \A t \in Threads : pending[t] # <<>> => mutex = t

\* C4: in interactive mode every status line starts a terminal row: what
\* the event wrote before it ends with a newline (or is only the erase
\* sequence), so the status is never appended to the text of an event line.
C4_StatusStartsRow ==
    (Interactive /\ ev.op \notin RawOps) =>
        \A i \in 1..Len(out) :
            out[i].k = "STATUS" => (i = 1 \/ out[i - 1].k \in {"NL", "EL"})

\* C5: in linear mode every event that writes output writes complete
\* lines: its output ends with a newline.
C5_LinearCompleteLines ==
    (linear /\ ev.op \notin RawOps /\ out # <<>>) => out[Len(out)].k = "NL"

\* C6: in interactive mode, after every event that renders and after every
\* ticker render, a status line is on the terminal row iff current_tasks
\* is non-empty; when did_build removes the last running task the status
\* line drawn before is erased and none is drawn again.
C6_StatusIffRunning ==
    (Interactive /\ Rendered) =>
        /\ Status(term) <=> renderer.current_tasks # <<>>
        /\ HasToken(out, "STATUS") <=> renderer.current_tasks # <<>>

\* C7: write_raw_stdout / write_raw_stderr in interactive mode, while a
\* status line is displayed, erase the status line before the bytes.
C7_RawErasesStatusFirst ==
    [][(ev'.op \in RawOps /\ Interactive /\ renderer.needs_clear /\ Status(term))
          => (out' # <<>> /\ out'[1].k = "EL")]_vars

\* C8: a stderr line of a running task received while quiet is set is not
\* written at the time of the event.
C8_QuietStderrNotWritten ==
    (ev.op = "stderr_line" /\ ev.arg = "quiet" /\ Registered(renderer, ev.task))
        => ~HasToken(out, "TEXT")

\* C9: on_child_process_stdout_line emits the line iff capture is false or
\* the no_capture setting is true.
C9_StdoutLineEmittedIff ==
    ev.op = "stdout_line" =>
        (HasToken(out, "NL") <=> (ev.arg # "capture" \/ settings.no_capture))

\* C10: in linear mode no ticker exists; once the TerminalWatcher is
\* dropped the ticker terminates, and a wake that finds no strong
\* reference left returns without rendering.
C10_TickerTerminates ==
    /\ [](linear => tpc = "none")
    /\ [][(tpc = "sleep" /\ strong = 0) => tpc' \in {"sleep", "done"}]_vars
    /\ (owner = "none") ~> (tpc \in {"none", "done"})

\* the ticker woke after the drop of `inner`, before its own handle was dropped
C10_Witness ==
    /\ Interactive
    /\ owner = "task"
    /\ strong = 0
    /\ tpc = "done"

\* C11: while the ticker waits on its 100 ms timer it does not own the
\* mutex and holds no strong reference: the only strong reference to the
\* renderer is the one of the TerminalWatcher (none once `inner` is dropped).
C11_SleepHoldsNothing ==
    tpc = "sleep" =>
        /\ mutex # "ticker"
        /\ pending["ticker"] = <<>>
        /\ strong = (IF owner = "all" THEN 1 ELSE 0)

\* the ticker rendered once and sleeps again while a worker owns the mutex
C11_Witness ==
    /\ tpc = "sleep"
    /\ wcall["ticker"].id > 0
    /\ mutex \in Workers
    /\ strong = 1

\* the value current_tasks holds for a task
Entry(ct, task) == ct[IndexOf(ct, task)].v

\* ct2 holds the same entries as ct for every task but `task`, and one
\* entry per key
OthersKept(ct, ct2, task) ==
    /\ Len(ct2) = Cardinality(Keys(ct2))
    /\ \A u \in TaskIds \ {task} :
          /\ u \in Keys(ct2) <=> u \in Keys(ct)
          /\ u \in Keys(ct) => Entry(ct2, u) = Entry(ct, u)

\* C12: will_build(task, n_steps, _) leaves current_tasks[task] = (0, n_steps),
\* adds exactly 1 to num_tasks and leaves num_completed_tasks and the
\* entries of all other tasks unchanged.
C12_WillBuildEffect ==
    [][ev'.op = "will_build"
          => /\ Registered(renderer', ev'.task)
             /\ Entry(renderer'.current_tasks, ev'.task) = <<0, ev'.n>>
             /\ renderer'.num_tasks = renderer.num_tasks + 1
             /\ renderer'.num_completed_tasks = renderer.num_completed_tasks
             /\ OthersKept(renderer.current_tasks, renderer'.current_tasks, ev'.task)]_vars

\* will_build of a second task while the first one has made progress
C12_Witness ==
    /\ ev.op = "will_build"
    /\ renderer.num_tasks = 2
    /\ Len(renderer.current_tasks) = 2
    /\ renderer.current_tasks[1].v[1] > 0
    /\ renderer.current_tasks[2].id = ev.task
    /\ renderer.current_tasks[2].v = <<0, ev.n>>

HasCommand(w) == \E i \in 1..Len(w) : w[i].k = "TEXT" /\ w[i].s = "command"

\* C13: will_execute(task, cmd, step, n_steps) for a running task sets the
\* task's progress to (step + 1, n_steps), leaves the other entries and both
\* counters unchanged, and writes a command line iff dry_run or
\* print_recipe_commands is set.
C13_WillExecuteEffect ==
    [][(ev'.op = "will_execute" /\ Registered(renderer, ev'.task))
          => /\ Registered(renderer', ev'.task)
             /\ Entry(renderer'.current_tasks, ev'.task) = <<ev'.step + 1, ev'.n>>
             /\ OthersKept(renderer.current_tasks, renderer'.current_tasks, ev'.task)
             /\ renderer'.num_tasks = renderer.num_tasks
             /\ renderer'.num_completed_tasks = renderer.num_completed_tasks
             /\ HasCommand(out') <=> (settings.dry_run \/ settings.print_recipe_commands)]_vars

\* a dry run without print_recipe_commands wrote the command of the second
\* of two running tasks
C13_Witness ==
    /\ ev.op = "will_execute" /\ ev.arg # "panic"
    /\ settings.dry_run /\ ~settings.print_recipe_commands
    /\ HasCommand(out)
    /\ Len(renderer.current_tasks) = 2
    /\ renderer.current_tasks[2].id = ev.task
    /\ renderer.current_tasks[2].v = <<ev.step + 1, ev.n>>

\* the prefix of a message / warning line: the bracketed task id when a
\* task is given, the level otherwise
Prefix(e) ==
    IF e.task # NoTask THEN "[" \o e.task \o "]"
    ELSE IF e.op = "message" THEN "[info]" ELSE "[warn]"

\* C14: message(task?, text) and warning(task?, text) write a line prefixed
\* with [info] / [warn] when no task is given and with the bracketed task
\* id instead when a task is given.
C14_TaskPrefix ==
    ev.op \in {"message", "warning"} =>
        \E i \in 1..Len(out), m \in Messages :
            out[i].k = "TEXT" /\ out[i].s = Prefix(ev) \o " " \o m

\* C15: the status line accounts for every running task: the number of
\* names written plus the k of ` + k more` / `k recipes` (0 when no such
\* suffix is written) equals |current_tasks|, and `k recipes` is used
\* exactly when no name was written.
C15_MoreCountsUnwritten ==
    \A i \in 1..Len(out) :
        out[i].k = "STATUS" =>
            /\ Len(out[i].names) + out[i].more = Len(renderer.current_tasks)
            /\ out[i].suffix = "recipes" <=> (out[i].names = <<>> /\ out[i].more > 0)

\* C17: whenever current_tasks is non-empty the rendered status line holds
\* the name of the last-inserted running task.
C17_StatusNamesLastTask ==
    \A i \in 1..Len(out) :
        (out[i].k = "STATUS" /\ renderer.current_tasks # <<>>) =>
            \E j \in 1..Len(out[i].names) :
                out[i].names[j] = renderer.current_tasks[Len(renderer.current_tasks)].id

\* a step in which a call ran render_progress: calls take no time
RenderStep == Interactive /\ clock' = clock /\ Rendered'

SinceTick == clock - renderer.last_spinner_tick

Advanced == renderer'.spinner_frame = renderer.spinner_frame + 1

\* spinner_frame moves by at most 1, only in a render, and the render
\* records its time in last_spinner_tick
AdvanceFrame ==
    /\ renderer'.spinner_frame = renderer.spinner_frame \/ Advanced
    /\ Advanced => (RenderStep /\ renderer'.last_spinner_tick = clock)
    /\ ~Advanced => renderer'.last_spinner_tick = renderer.last_spinner_tick

\* C16: spinner_frame is advanced by at most 1 per render_progress call and
\* only when at least 100 ms have passed since last_spinner_tick, so two
\* successive advances are at least 100 ms apart; a render at exactly
\* 100 ms since the last tick advances the frame.
C16_SpinnerAtLeast100ms ==
    [][/\ AdvanceFrame
       /\ Advanced => SinceTick >= spinner_interval
       /\ (RenderStep /\ SinceTick = spinner_interval) => Advanced]_vars

\* C16 as the code has it: a render advances the frame iff more than 100 ms
\* have passed since last_spinner_tick; a render at exactly 100 ms leaves
\* the frame, the next render after it advances it.
C16_SpinnerAfter100ms ==
    [][/\ AdvanceFrame
       /\ RenderStep => (Advanced <=> SinceTick > spinner_interval)]_vars

\* a render made exactly 100 ms after the last tick left the frame alone
C16_Witness ==
    /\ Interactive /\ Rendered
    /\ renderer.spinner_frame = 1
    /\ renderer.last_spinner_tick > 0
    /\ ev.at = renderer.last_spinner_tick + spinner_interval

\* C18: detect(Auto) returns Strip whenever stdout is not a terminal and
\* clicolor-force is not set, whatever the other queries answer.
C18_AutoStripsWithoutTerminal ==
    (kind # "none" /\ probes.choice = "Auto"
        /\ ~probes.is_terminal /\ ~probes.clicolor_force) => kind = "Strip"

\* the source is Source(d) and parse_werk has returned
ParsedFrom(d) == source_code = Source(d) /\ parsed.status # "none"

MustBeSeparated(e) ==
    /\ e.k = "Description"
    /\ e.text = "statements must be separated by semicolon or newlines"

\* C19: in every statement list (root, task and build recipe body, run
\* block, match body), two statements with only spaces or tabs between them
\* make parse_werk fail with Expected::Description("statements must be
\* separated by semicolon or newlines"), and the same source with a `;`
\* inserted between the two statements parses.
C19_UnseparatedStatementsRejected ==
    \A d \in TwoStatements :
        (ParsedFrom(d) /\ d.sep \in Blank) =>
            /\ parsed.status = "Err"
            /\ MustBeSeparated(parsed.expected)
            /\ parse_werk(Source([d EXCEPT !.sep = <<";">> \o d.sep])).status = "Ok"

\* C20 as stated: when parse_werk fails with the "statements must be
\* separated" error, the span of the returned Error is the span of the last
\* successfully parsed statement.
C20_ErrorSpanIsLastStatement ==
    \A d \in TwoStatements :
        (ParsedFrom(d) /\ parsed.status = "Err" /\ MustBeSeparated(parsed.expected)) =>
            parsed.span = FirstSpan(d)

\* C20 amended: when parse_werk fails with the "statements must be
\* separated" error, the span of the returned Error is the empty span at the
\* offset where parsing stopped, the start of the statement that lacks a
\* separator; the span of the last successfully parsed statement is the span
\* carried by the Expected::Description payload.
C20_ErrorSpanIsStopOffset ==
    \A d \in TwoStatements :
        (ParsedFrom(d) /\ parsed.status = "Err" /\ MustBeSeparated(parsed.expected)) =>
            /\ parsed.span = <<SecondStart(d), SecondStart(d)>>
            /\ parsed.expected.span = FirstSpan(d)

\* the error is reported for the two arms of a match body, 19 bytes into the
\* source, with tabs and spaces between the arms
C20_Witness ==
    \E d \in TwoStatements :
        /\ ParsedFrom(d)
        /\ d.list = "match"
        /\ d.sep = <<" ", "\t">>
        /\ parsed.status = "Err"
        /\ MustBeSeparated(parsed.expected)
        /\ parsed.expected.span[1] > 0
        /\ parsed.span[1] > parsed.expected.span[2]

\* Properties of the sources of one statement (SpecStatement, SpecParser).
\* the text between two statements holds a `;`, a newline or a comment
Separated(sep) == \E j \in 1..Len(sep) : sep[j] \in {";", "\n"} \cup Comments

\* C21: a statement list parses exactly when its adjacent statements are
\* separated by a `;` or by a whitespace run that holds a newline or a
\* comment; the last statement needs no separator before the end of the
\* input or the `}`, and the Document then covers the whole source.
C21_ParsesIffSeparated ==
    \A d \in TwoStatements :
        ParsedFrom(d) =>
            /\ parsed.status = "Ok" <=> Separated(d.sep)
            /\ parsed.status = "Ok" => parsed.span = <<0, Bytes(source_code)>>

\* a one-line task body: two statements with a `;` between them and no
\* separator before the `}`
C21_Witness ==
    \E d \in TwoStatements :
        /\ ParsedFrom(d)
        /\ d.list = "task"
        /\ d.sep = <<";">>
        /\ parsed.status = "Ok"
        /\ Len(parsed.root.statements) = 1
        /\ Len(parsed.root.statements[1].body.statements) = 2

\* parse_werk has returned for the source
ParsedSource(s) == parsed.status # "none" /\ source_code = s

\* the kind of node a leaf of the inputs parses to
LeafKind(leaf) ==
    IF leaf[1] = "\"" THEN "string" ELSE IF leaf[1] = "[" THEN "list" ELSE "ident"

\* e is the expression of the first n leaves of ChainSource(d): a leaf for
\* n = 1, else a ThenExpr of the expression of the first n - 1 leaves and
\* the n-th leaf, spanning from the first leaf to the end of the n-th
RECURSIVE FoldedLeft(_, _, _)
FoldedLeft(e, d, n) ==
    IF n = 1 THEN e.kind = LeafKind(d.leaves[1])
    ELSE /\ e.kind = "Then"
         /\ e.then.kind = LeafKind(d.leaves[n])
         /\ e.span = merge(e.expr.span, e.then.span)
         /\ e.span = <<Bytes(LetEq),
                       Bytes(ChainSource([d EXCEPT !.leaves = SubSeq(d.leaves, 1, n)]))>>
         /\ FoldedLeft(e.expr, d, n - 1)

\* C22: expression_chain folds l0 => l1 => ... => ln from the left into
\* Then(...Then(Then(l0, l1), l2)..., ln), and the span of every ThenExpr is
\* merge(lhs.span, rhs.span): it runs from the start of l0 to the end of
\* its right operand.
C22_ChainFoldsLeft ==
    \A d \in Chains :
        ParsedSource(ChainSource(d)) =>
            /\ parsed.status = "Ok"
            /\ Len(parsed.root.statements) = 1
            /\ FoldedLeft(parsed.root.statements[1].value, d, Len(d.leaves))

\* a chain of three leaves was parsed into two nested ThenExpr nodes
C22_Witness ==
    \E d \in Chains :
        /\ ParsedSource(ChainSource(d))
        /\ Len(d.leaves) = 3
        /\ parsed.status = "Ok"
        /\ parsed.root.statements[1].value.kind = "Then"
        /\ parsed.root.statements[1].value.expr.kind = "Then"
        /\ parsed.root.statements[1].value.then.kind = "list"

\* the offset where the right operand of the last `=>` of DanglingSource(d)
\* would start
OperandStart(d) ==
    Bytes(ChainSource(d) \o d.arrow \o (IF d.then = <<" ">> THEN d.then ELSE <<>>))

\* C23: once `=>` has been consumed after an expression leaf, a missing or
\* malformed right operand (also `=>` at the end of the input) makes the
\* parse fail with the error of the operand, at the place of the operand:
\* the chain is not ended before the `=>` and no other alternative is tried.
C23_MissingOperandIsCut ==
    \A d \in Dangling :
        ParsedSource(DanglingSource(d)) =>
            /\ parsed.status = "Err"
            /\ parsed.span = <<OperandStart(d), OperandStart(d)>>
            /\ parsed.expected \in {Expected("identifier"), Internal}

\* `=>` at the end of the input, after two leaves
C23_Witness ==
    \E d \in Dangling :
        /\ ParsedSource(DanglingSource(d))
        /\ d.then = <<>>
        /\ Len(d.leaves) = 2
        /\ parsed.status = "Err"
        /\ parsed.span[1] = Bytes(source_code)

MustHaveCommas(e) ==
    /\ e.k = "Description"
    /\ e.text = "list items must be separated by commas"

\* C24: in a list, a comma before the `]` is accepted, and two items with
\* no comma between them (whatever whitespace lies between them) make
\* parse_werk fail with Expected::Description("list items must be separated
\* by commas") carrying the span of the last item parsed.
C24_MissingCommaReported ==
    \A d \in Lists :
        ParsedSource(ListSource(d)) =>
            /\ d.between \in Commas => parsed.status = "Ok"
            /\ d.between \in NoCommas =>
                   /\ parsed.status = "Err"
                   /\ MustHaveCommas(parsed.expected)
                   /\ parsed.expected.span = FirstItem(d)

\* the node parsed at the place of the word of WordSource(d)
NodeAt(d) ==
    CASE d.place = "let" -> parsed.root.statements[1].ident
      [] d.place = "task" -> parsed.root.statements[1].name
      [] d.place = "value" -> parsed.root.statements[1].value
      [] d.place = "item" -> parsed.root.statements[1].value.items[1]
      [] d.place = "then" -> parsed.root.statements[1].value.then

\* the word of WordSource(d) was accepted as an identifier
AcceptedAsIdentifier(d) ==
    /\ parsed.status = "Ok"
    /\ NodeAt(d).kind = "ident"
    /\ NodeAt(d).ident = d.word

\* C25: no keyword is accepted as a complete identifier, in the place of
\* the name of a let or task statement or of an identifier expression,
\* while an identifier that only starts with a keyword is accepted.
C25_KeywordsAreNotIdentifiers ==
    \A d \in WordIn :
        ParsedSource(WordSource(d)) =>
            (AcceptedAsIdentifier(d) <=> d.word \notin Keywords)

\* the kind of value the tokens of a config value stand for
ValueKind(value) ==
    IF value[1] = "\"" THEN "String"
    ELSE IF value \in {<<"true">>, <<"false">>} THEN "Bool"
    ELSE "other"

\* the table of spec 4.1: the kind of value each key requires
Pairs(key, valuekind) ==
    \/ key = "print-commands" /\ valuekind = "Bool"
    \/ key \in {"edition", "out-dir", "default"} /\ valuekind = "String"

\* C26: every ConfigStmt of a parsed Document has one of the four keys and
\* a value of the kind its key requires (boolean for print-commands, string
\* for the other three), and no other pairing of key and value parses.
C26_ConfigPairsKeyAndValue ==
    \A d \in Configs :
        ParsedSource(ConfigSource(d)) =>
            /\ parsed.status = "Ok" <=> Pairs(d.key, ValueKind(d.value))
            /\ parsed.status = "Ok" =>
                   /\ Len(parsed.root.statements) = 1
                   /\ parsed.root.statements[1].kind = "config"
                   /\ parsed.root.statements[1].ident.ident = d.key
                   /\ Pairs(parsed.root.statements[1].ident.ident,
                            parsed.root.statements[1].value.kind)

\* `config print-commands = false` was parsed
C26_Witness ==
    \E d \in Configs :
        /\ ParsedSource(ConfigSource(d))
        /\ d.key = "print-commands"
        /\ d.value = <<"false">>
        /\ parsed.status = "Ok"
        /\ parsed.root.statements[1].value = [kind |-> "Bool", value |-> FALSE]

\* the label of the error for a key that is none of the four
UnknownKey ==
    Expected("config key, one of 'out-dir', 'edition', 'print-commands', or 'default'")

\* C27: a config statement whose key is none of the four fails, whatever
\* value follows the `=`, with the label "config key, one of 'out-dir',
\* 'edition', 'print-commands', or 'default'", and the span of the returned
\* Error covers the key.
C27_UnknownKeyReportedAtKey ==
    \A d \in Configs :
        (ParsedSource(ConfigSource(d))
         /\ d.key \notin {"out-dir", "edition", "print-commands", "default"}) =>
            /\ parsed.status = "Err"
            /\ parsed.expected = UnknownKey
            /\ parsed.span = KeySpan(d)

\* the errors with which a statement list refuses what is no statement of it
NoStatement ==
    {Expected("'config', 'let', 'task', or 'build' statement"),
     Expected("'let', 'from', 'build', 'depfile', 'run', or 'echo' statement")}

\* the offset of the statement of StoppedSource(d), and of the end of its
\* leading keyword
StoppedAt(d) == Bytes(Open(d.list))

AfterKeyword(d) == Bytes(Open(d.list)) + Bytes(<<d.stmt[1]>>)

\* C28: once the leading keyword of a statement (config, let, task, build,
\* from, depfile, run, info, warn) has been matched, a later failure in the
\* statement is reported from inside the statement, at or after the end of
\* the keyword; it never becomes the "expected ... statement" error of the
\* enclosing list at the start of the statement.
C28_FailureAfterKeywordIsCut ==
    \A d \in Stopped :
        ParsedSource(StoppedSource(d)) =>
            /\ parsed.status = "Err"
            /\ parsed.span[1] >= AfterKeyword(d)
            /\ ~(parsed.expected \in NoStatement /\ parsed.span[1] = StoppedAt(d))

\* the parsers a statement list or a list of items repeats
Repeated ==
    {"expression_chain", "run_expression", "match_arm", "task_recipe_stmt",
     "build_recipe_stmt", "root_stmt"}

\* a parser that succeeded at i has left the input after i
Consumes(r, i) == r.ok => r.pos > i

\* C29: parse_werk returns for every source, either a Document that covers
\* the whole source or one Error, whose span is an offset of the source; and
\* nothing that a statement, list, whitespace or fragment loop repeats
\* succeeds, at any position of the source, without consuming input.
C29_ParseWerkIsTotal ==
    parsed.status # "none" =>
        /\ \/ /\ parsed.status = "Ok"
              /\ parsed.expected = NoExpected
              /\ parsed.root.kind = "body"
              /\ parsed.span = <<0, Bytes(source_code)>>
           \/ /\ parsed.status = "Err"
              /\ "root" \notin DOMAIN parsed
              /\ parsed.expected # NoExpected
              /\ parsed.span[1] = parsed.span[2]
              /\ parsed.span[1] \in 0..Bytes(source_code)
        /\ \A i \in 1..(Len(source_code) + 1) :
            /\ \A parser \in Repeated : Consumes(parse_next(parser, source_code, i), i)
            /\ Consumes(string_fragment(source_code, i), i)
            /\ Consumes(pattern_fragment(source_code, i), i)
            /\ whitespace_parsed(source_code, i).pos >= i
            /\ Consumes(whitespace_parsed_nonempty(source_code, i), i)

\* the end of the input inside the body of a task: the statement loop stops
\* there with one Error
C29_Witness ==
    /\ source_code = <<"task", " ", "t", " ", "{">>
    /\ parsed.status = "Err"
    /\ parsed.span = <<8, 8>>
    /\ parse_next("task_recipe_stmt", source_code, 6).cut

\* the literal of EscapeSource(d) in the Document
LiteralOf(d) ==
    IF d.IS_PATTERN THEN parsed.root.statements[1].pattern
    ELSE parsed.root.statements[1].value

\* the fragments of a literal that is the text `text`
OneLiteral(text) == IF text = "" THEN <<>> ELSE <<[kind |-> "Literal", text |-> text]>>

\* the text before the backslash, and the text after the escape without the
\* whitespace an escaped whitespace run takes with it
Before(d) == Text(d.before, 1, Len(d.before) + 1)

After(d) == Text(d.after, 1, Len(d.after) + 1)

AfterRun(d) == IF d.after = <<" ">> THEN "" ELSE After(d)

\* C30: in a string or pattern literal a backslash before one of
\* \ { } < > % ( ) " n r t 0 yields the character it stands for, a backslash
\* before whitespace takes the whitespace run out of the literal, and a
\* backslash before any other character makes the literal fail to parse with
\* the label "valid escape sequence".
C30_EscapesInLiterals ==
    \A d \in Escapes :
        ParsedSource(EscapeSource(d)) =>
            IF d.escaped \in {"\\", "{", "}", "<", ">", "%", "(", ")", "\"",
                              "n", "r", "t", "0"}
            THEN /\ parsed.status = "Ok"
                 /\ LiteralOf(d).fragments =
                        OneLiteral(Before(d) \o escape_seq_char[d.escaped] \o After(d))
            ELSE IF d.escaped \in {" ", "\t", "\n"}
            THEN /\ parsed.status = "Ok"
                 /\ LiteralOf(d).fragments = OneLiteral(Before(d) \o AfterRun(d))
            ELSE /\ parsed.status = "Err"
                 /\ parsed.expected = Expected("valid escape sequence")

\* the literal of LiteralSource(d) in the Document
FragmentsOf(d) ==
    IF d.IS_PATTERN THEN parsed.root.statements[1].pattern.fragments
    ELSE parsed.root.statements[1].value.fragments

\* no empty Literal and no two Literal fragments next to each other
Canonical(fragments) ==
    /\ \A j \in 1..Len(fragments) :
           fragments[j].kind = "Literal" => fragments[j].text # ""
    /\ \A j \in 1..(Len(fragments) - 1) :
           ~(fragments[j].kind = "Literal" /\ fragments[j + 1].kind = "Literal")

\* C31: the fragments of every string or pattern literal that parses are
\* canonical: no Literal is empty and no two Literal fragments are adjacent;
\* a literal run, an escaped character and a literal run make one Literal,
\* and `*.\{c,cpp\}` is the one Literal `*.{c,cpp}`.
C31_FragmentsCanonical ==
    parsed.status = "Ok" =>
    \A d \in Literals :
        ParsedSource(LiteralSource(d)) =>
            /\ Canonical(FragmentsOf(d))
            /\ d.content = StringEscape =>
                   FragmentsOf(d) = <<[kind |-> "Literal", text |-> "*.{c,cpp}"]>>
            /\ d.content = <<"x", "\\", "{", "x">> =>
                   FragmentsOf(d) = <<[kind |-> "Literal", text |-> "x{x"]>>

\* a pattern of a literal run, an escaped newline and the stem was parsed
\* into a Literal and the PatternStem
C31_Witness ==
    \E d \in Literals :
        /\ ParsedSource(LiteralSource(d))
        /\ d.IS_PATTERN
        /\ d.content = <<"x", "\\", "n", "%">>
        /\ parsed.status = "Ok"
        /\ FragmentsOf(d) = <<[kind |-> "Literal", text |-> "x\n"], [kind |-> "PatternStem"]>>

\* the nodes directly under a node
Children(n) ==
    IF "param" \in DOMAIN n THEN <<n.param>>
    ELSE CASE n.kind = "list" -> n.items
           [] n.kind = "body" -> n.statements
           [] n.kind = "Then" -> <<n.expr, n.then>>
           [] n.kind = "let" -> <<n.ident, n.value>>
           [] n.kind = "task" -> <<n.name, n.body>>
           [] n.kind = "build" -> <<n.pattern, n.body>>
           [] n.kind = "config" -> <<n.ident>>
           [] n.kind = "match_arm" -> <<n.pattern, n.expr>>
           [] n.kind = "match" -> <<n.body>>
           [] n.kind = "write" -> <<n.path, n.value>>
           [] n.kind = "copy" -> <<n.src, n.dest>>
           [] OTHER -> <<>>

\* the token t of the source starts, or ends, at the byte offset
StartsAt(s, offset, t) == \E i \in 1..Len(s) : Offset(s, i) = offset /\ s[i] = t

EndsAt(s, offset, t) == \E i \in 1..Len(s) : Offset(s, i + 1) = offset /\ s[i] = t

\* the kinds of node that begin with their keyword and end with their last
\* component
Led(n) ==
    \/ "param" \in DOMAIN n
    \/ n.kind \in {"let", "task", "build", "match", "write", "copy"}

\* the span of n and of every node under it lies in lo .. hi and in the span
\* of its parent, and begins and ends where its kind says
RECURSIVE Nested(_, _, _, _)
Nested(s, n, lo, hi) ==
    /\ lo <= n.span[1] /\ n.span[1] <= n.span[2] /\ n.span[2] <= hi
    /\ Led(n) =>
           /\ StartsAt(s, n.span[1], n.kind)
           /\ LET last == Children(n)[Len(Children(n))] IN n.span[2] = last.span[2]
    /\ n.kind = "config" => StartsAt(s, n.span[1], "config")
    /\ n.kind = "list" => StartsAt(s, n.span[1], "[") /\ EndsAt(s, n.span[2], "]")
    /\ \A j \in 1..Len(Children(n)) : Nested(s, Children(n)[j], n.span[1], n.span[2])

\* C32: in every parsed Document the span of each node lies within the span
\* of its parent and within 0 .. len(source); the span of a statement runs
\* from its leading keyword to the end of its last component, that of a list
\* from `[` to `]`, that of a keyword expression from the keyword to the end
\* of its parameter.
C32_SpansNested ==
    parsed.status = "Ok" =>
        Nested(source_code, parsed.root, 0, Bytes(source_code))

\* a build recipe with a list in a from statement and a write in a run block
C32_Witness ==
    /\ parsed.status = "Ok"
    /\ source_code \in Nestings
    /\ parsed.root.statements[1].kind = "build"
    /\ parsed.root.statements[1].body.statements[1].param.kind = "list"
    /\ parsed.root.statements[1].body.statements[2].param.statements[1].kind = "write"
    /\ parsed.root.statements[1].body.statements[2].param.statements[1].span = <<32, 44>>

\* token j of s is the text or the line ending of a comment that starts at
\* or after token start: a `#` stands before it with no newline in between
InComment(s, start, j) ==
    \E k \in start..(j - 1) : s[k] \in Comments /\ \A m \in k..(j - 1) : s[m] # "\n"

\* the token after the longest run of spaces, tabs, carriage returns,
\* newlines and comments that starts at token start
RunEnd(s, start) ==
    CHOOSE j \in start..(Len(s) + 1) :
        /\ \A m \in start..(j - 1) :
               s[m] \in {" ", "\t", "\r", "\n"} \cup Comments \/ InComment(s, start, m)
        /\ j <= Len(s) =>
               s[j] \notin {" ", "\t", "\r", "\n"} \cup Comments /\ ~InComment(s, start, j)

\* C36: whitespace_parsed consumes the longest run of spaces, tabs, carriage
\* returns, newlines and comments; has_comments is true iff the run holds a
\* comment, has_newlines iff it holds a newline that is not the line ending
\* of a comment; the run separates statements iff one of the flags is set,
\* also when it is a comment at the end of the input.
C36_WhitespaceFlags ==
    \A d \in Runs :
        ParsedSource(RunSource(d)) =>
            LET s == source_code
                ws == whitespace_parsed(s, RunStart)
                end == RunEnd(s, RunStart)
                comments == \E j \in RunStart..(end - 1) : s[j] \in Comments
                newlines == \E j \in RunStart..(end - 1) :
                                s[j] = "\n" /\ ~InComment(s, RunStart, j)
            IN  /\ ws.pos = end
                /\ ws.val.span = Span(s, RunStart, end)
                /\ ws.val.has_comments = comments
                /\ ws.val.has_newlines = newlines
                /\ is_statement_separator(ws.val) = (comments \/ newlines)
                /\ parsed.status = "Ok" <=> (comments \/ newlines \/ end > Len(s))
                /\ parsed.status = "Ok" =>
                       Len(parsed.root.statements) = IF end > Len(s) THEN 1 ELSE 2

\* the characters of d before the first quote that is not escaped
Unquoted(chars) ==
    IF \E k \in 1..Len(chars) : chars[k] = <<"\"">>
    THEN SubSeq(chars, 1, (CHOOSE k \in 1..Len(chars) :
                               /\ chars[k] = <<"\"">>
                               /\ \A m \in 1..(k - 1) : chars[m] # <<"\"">>) - 1)
    ELSE chars

\* the text of a sequence of tokens
TextOf(tokens) == Text(tokens, 1, Len(tokens) + 1)

\* C37: escaped_string returns the source text between the opening quote and
\* the first closing quote that is not escaped, with the escape sequences
\* left as they are written; an escaped quote or backslash does not end the
\* string, and the returned text between two quotes is the consumed input.
C37_EscapedStringIsSourceText ==
    (/\ parsed.status # "none"
     /\ Len(source_code) > Len(OutDir)
     /\ SubSeq(source_code, 1, Len(OutDir)) = OutDir) =>
    \A d \in Strings :
        ParsedSource(StringSource(d)) =>
            LET s == source_code
                start == Len(OutDir) + 1
                r == escaped_string(s, start)
                text == TextOf(Flat(Unquoted(d.chars)))
            IN  /\ r.ok
                /\ r.val.text = text
                /\ r.pos = start + Len(Flat(Unquoted(d.chars))) + 2
                /\ "\"" \o r.val.text \o "\"" = Text(s, start, r.pos)
                /\ Unquoted(d.chars) = d.chars =>
                       /\ parsed.status = "Ok"
                       /\ parsed.root.statements[1].value =
                              [kind |-> "String", text |-> text]

\* `config out-dir = "x\"\\"`: an escaped quote and an escaped backslash
\* before the closing quote
C37_Witness ==
    \E d \in Strings :
        /\ ParsedSource(StringSource(d))
        /\ d.chars = <<<<"x">>, <<"\\", "\"">>, <<"\\", "\\">>>>
        /\ parsed.status = "Ok"
        /\ parsed.root.statements[1].value.text = "x\\\"\\\\"

\* C33: in interactive mode needs_clear is true exactly when a status line
\* that was rendered earlier is still on the terminal row under the cursor
\* (it is false after a render with no running task, which draws nothing),
\* and ESC[K is written only while a status line is on the row.
C33_NeedsClearIffStatusOnRow ==
    [][Interactive =>
          /\ renderer'.needs_clear <=> Status(term')
          /\ HasToken(out', "EL") => Status(term)]_vars

\* the events that neither begin nor end a task nor record its progress
FrameOps ==
    {"stdout_line", "stderr_line", "did_execute", "message", "warning",
     "write_raw_stdout", "write_raw_stderr", "render_now"}

\* C34: only did_build takes a task out of current_tasks and only will_build
\* puts one in; child-process lines, did_execute, message, warning, raw
\* writes and ticker renders leave current_tasks, num_tasks and
\* num_completed_tasks as they are, so a task that was begun stays in
\* current_tasks until its did_build.
C34_OnlyBuildEventsChangeTasks ==
    [][/\ ev'.op \in FrameOps =>
              /\ renderer'.current_tasks = renderer.current_tasks
              /\ renderer'.num_tasks = renderer.num_tasks
              /\ renderer'.num_completed_tasks = renderer.num_completed_tasks
       /\ \A t \in TaskIds :
              /\ (Registered(renderer, t) /\ ~Registered(renderer', t)) =>
                     ev'.op = "did_build" /\ ev'.task = t
              /\ (~Registered(renderer, t) /\ Registered(renderer', t)) =>
                     ev'.op = "will_build" /\ ev'.task = t]_vars

\* a command of a running task has failed and the task is still running
C34_Witness ==
    /\ ev.op = "did_execute"
    /\ ev.arg = "failure"
    /\ Registered(renderer, ev.task)
    /\ renderer.num_tasks = 1
    /\ renderer.num_completed_tasks = 0

\* C35: in interactive mode the erase sequence ESC[K is written to the
\* stream on which the status line is drawn (StatusLine: stdout), also in
\* the call of a child-process stderr line, whose output is ESC[K, the
\* line, the status line.
C35_EraseOnStatusStream ==
    [][Interactive =>
          \A i \in DOMAIN out' :
              out'[i].k = "EL" => out'[i].fd = "stdout"]_vars

\* C38: will_execute for a task that is not in current_tasks panics at
\* expect("task not registered") before anything is written and leaves
\* current_tasks and the counters as they were; no other call panics, and
\* will_execute for a task in current_tasks does not.
C38_WillExecuteUnregisteredPanics ==
    [][/\ (ev'.op = "will_execute" /\ ev'.task \notin Keys(renderer.current_tasks)) =>
              /\ ev'.arg = "panic"
              /\ out' = <<>>
              /\ term' = term
              /\ renderer' = renderer
       /\ ev'.arg = "panic" =>
              /\ ev'.op = "will_execute"
              /\ ev'.task \notin Keys(renderer.current_tasks)]_vars

\* will_execute has panicked for a task that did_build had removed, while
\* the other task is running
C38_Witness ==
    /\ ev.op = "will_execute"
    /\ ev.arg = "panic"
    /\ out = <<>>
    /\ renderer.num_tasks = 2
    /\ renderer.num_completed_tasks = 1
    /\ Len(renderer.current_tasks) = 1
    /\ ev.task \notin Keys(renderer.current_tasks)

\* |current_tasks| = num_tasks - num_completed_tasks
Balanced(r) == Len(r.current_tasks) = r.num_tasks - r.num_completed_tasks

\* the call of this step is no will_build for a running task and no
\* did_build for a task that is not running
Orderly ==
    /\ ev'.op = "will_build" => ev'.task \notin Keys(renderer.current_tasks)
    /\ ev'.op = "did_build" => ev'.task \in Keys(renderer.current_tasks)

\* C39: a new watcher has |current_tasks| = num_tasks - num_completed_tasks
\* and every call keeps the equality, will_build being called only for a
\* task that is not running and did_build only for a running one; a
\* will_build for a running task keeps the keys and their order, sets the
\* entry of the task to (0, num_steps) and breaks the equality.
C39_BalancedWhileOrderly ==
    /\ Balanced(renderer)
    /\ [][/\ (Balanced(renderer) /\ Orderly) => Balanced(renderer')
          /\ (ev'.op = "will_build" /\ ev'.task \in Keys(renderer.current_tasks)) =>
                 /\ Len(renderer'.current_tasks) = Len(renderer.current_tasks)
                 /\ \A i \in 1..Len(renderer.current_tasks) :
                        /\ renderer'.current_tasks[i].id = renderer.current_tasks[i].id
                        /\ renderer'.current_tasks[i].v =
                               IF renderer.current_tasks[i].id = ev'.task
                               THEN <<0, ev'.n>>
                               ELSE renderer.current_tasks[i].v
                 /\ Balanced(renderer) => ~Balanced(renderer')]_vars

\* two tasks were begun and the first of them has completed
C39_Witness ==
    /\ ev.op = "did_build"
    /\ renderer.num_tasks = 2
    /\ renderer.num_completed_tasks = 1
    /\ Len(renderer.current_tasks) = 1
    /\ ev.task \notin Keys(renderer.current_tasks)

\* the mutex is owned by a thread that is inside its handler or its writes;
\* a thread that is outside a call, or waits for the mutex, does not own it
OwnerRuns ==
    /\ \A w \in Workers : mutex = w <=> wpc[w] \in {"write", "unwind"}
    /\ mutex = "ticker" <=> tpc = "write"

\* C40 as stated: every call that has started and waits for the mutex
\* acquires it, completes and releases it (a worker is back outside a call,
\* the ticker at the end of its loop body), and the mutex is owned only by
\* a thread inside a call.
C40_EveryCallCompletes ==
    /\ \A w \in Workers : (wpc[w] = "lock") ~> (wpc[w] = "idle")
    /\ (tpc = "lock") ~> (tpc = "drop")
    /\ []OwnerRuns

\* C40: every call that has started and waits for the mutex acquires it and
\* releases it, at its end or, for a will_execute whose task is not in
\* current_tasks, while its panic unwinds; the mutex is owned only by a
\* thread inside a call, and no other call panics.
C40_EveryCallReleases ==
    /\ \A w \in Workers : (wpc[w] = "lock") ~> (wpc[w] \in {"idle", "panicked"})
    /\ (tpc = "lock") ~> (tpc = "drop")
    /\ []OwnerRuns
    /\ [][\A w \in Workers :
             (wpc[w] = "lock" /\ wpc'[w] = "unwind") =>
                 /\ wcall[w].c.op = "will_execute"
                 /\ wcall[w].c.task \notin Keys(renderer.current_tasks)]_vars

\* a call has panicked and released the mutex, and the call that waited
\* behind it is inside its writes
C40_Witness ==
    \E w, u \in Workers :
        /\ wpc[w] = "panicked"
        /\ wpc[u] = "write"
        /\ mutex = u
        /\ wcall[u].id > wcall[w].id

====
